---- MODULE Spec2Model ----
(***************************************************************************)
(* Model of the pathy completion server (server/src): the directory cache  *)
(* (cache.rs), the completion pipeline (main.rs, completion.rs), the       *)
(* call-context heuristic (context.rs) and the configuration update path.  *)
(*                                                                         *)
(* Text is a sequence of one-character strings, one element per UTF-8      *)
(* byte: a multi-byte scalar value is its first element followed by CONT   *)
(* elements, so a byte offset of the source is a sequence index minus one. *)
(***************************************************************************)
EXTENDS Integers, Sequences, FiniteSets, TLC

VARIABLES
    cache,      \* ServerState.cache : DirCache {ttl, max_entries, entries}
    now,        \* the monotonic clock read by Instant::now()
    lastOp,     \* the last cache call: its arguments, its return value, what it met
    prevOp,     \* the cache call before lastOp, when it was an insert
    recency,    \* directories in order of last use (insert or get hit), newest first
    config,     \* ServerState.config
    config_warned,          \* ServerState.config_warned
    warning_lines,          \* the number of config warning lines written to stderr
    documents,              \* ServerState.documents : Url -> DocumentState
    root_uri,               \* ServerState.root_uri
    pending_config_request, \* ServerState.pending_config_request
    next_request_id,        \* ServerState.next_request_id
    response,   \* what the handler of the last message sent back and computed
    alive,      \* FALSE once the process has aborted
    probe       \* the last application of a pure function: its input and its result

cacheVars == <<lastOp, prevOp, recency>>
serverVars == <<config, config_warned, warning_lines, documents, root_uri,
                pending_config_request, next_request_id, response, alive>>

vars == <<cache, now, lastOp, prevOp, recency, config, config_warned, warning_lines,
         documents, root_uri, pending_config_request, next_request_id, response, alive,
         probe>>

----------------------------------------------------------------------------
(* Bounds *)

MaxTime == 1
MaxTtl == 1
MaxCap == 2
MaxRequestId == 2

----------------------------------------------------------------------------
(* Generic helpers *)

None == <<>>
Some(x) == <<x>>
is_some(o) == Len(o) = 1
is_none(o) == Len(o) = 0
unwrap(o) == o[1]

Min(a, b) == IF a <= b THEN a ELSE b
Max(a, b) == IF a >= b THEN a ELSE b

RemoveAt(s, i) == SubSeq(s, 1, i - 1) \o SubSeq(s, i + 1, Len(s))

push_front(s, e) == <<e>> \o s
pop_back(s) == SubSeq(s, 1, Len(s) - 1)

----------------------------------------------------------------------------
(* Text: Rust str as a sequence of bytes, char classes of std *)

\* the element that stands for a continuation byte of a multi-byte scalar value
CONT == "<cont>"

Lower ==
    <<"a", "b", "c", "d", "e", "f", "g", "h", "i", "j", "k", "l", "m",
      "n", "o", "p", "q", "r", "s", "t", "u", "v", "w", "x", "y", "z">>
Upper ==
    <<"A", "B", "C", "D", "E", "F", "G", "H", "I", "J", "K", "L", "M",
      "N", "O", "P", "Q", "R", "S", "T", "U", "V", "W", "X", "Y", "Z">>
Digits == {"0", "1", "2", "3", "4", "5", "6", "7", "8", "9"}

elements(f) == { f[i] : i \in DOMAIN f }

is_ascii_alphabetic(ch) == ch \in elements(Lower) \cup elements(Upper)
is_ascii_alphanumeric(ch) == is_ascii_alphabetic(ch) \/ ch \in Digits
is_whitespace(ch) == ch \in {" ", "\t", "\n", "\r", "U+00A0"}

\* the bytes of the model in ascending order of their value (lead bytes of the
\* multi-byte scalar values last; the grave accent is left out)
ByteOrder ==
    <<"\t", "\n", "\r", " ", "!", "\"", "#", "$", "%", "&", "'", "(", ")",
      "*", "+", ",", "-", ".", "/", "0", "1", "2", "3", "4", "5", "6", "7",
      "8", "9", ":", ";", "<", "=", ">", "?", "@", "A", "B", "C", "D", "E",
      "F", "G", "H", "I", "J", "K", "L", "M", "N", "O", "P", "Q", "R", "S",
      "T", "U", "V", "W", "X", "Y", "Z", "[", "\\", "]", "^", "_",
      "a", "b", "c", "d", "e", "f", "g", "h", "i", "j", "k", "l", "m", "n",
      "o", "p", "q", "r", "s", "t", "u", "v", "w", "x", "y", "z", "{", "|",
      "}", "~", CONT, "U+00A0", "U+00E9", "U+4E2D", "U+1F600">>

byte_lt(a, b) ==
    (CHOOSE i \in DOMAIN ByteOrder : ByteOrder[i] = a)
        < (CHOOSE i \in DOMAIN ByteOrder : ByteOrder[i] = b)

to_ascii_lowercase(ch) ==
    IF ch \in elements(Upper) THEN Lower[CHOOSE i \in 1..26 : Upper[i] = ch] ELSE ch

\* &s[from..to] with byte offsets
slice(s, from, to) == SubSeq(s, from + 1, to)
\* &s[from..]
slice_from(s, from) == SubSeq(s, from + 1, Len(s))

starts_with(s, pre) == Len(s) >= Len(pre) /\ SubSeq(s, 1, Len(pre)) = pre
ends_with(s, suf) ==
    Len(s) >= Len(suf) /\ SubSeq(s, Len(s) - Len(suf) + 1, Len(s)) = suf

\* s.contains(pat)
contains(s, pat) ==
    \E i \in 0..(Len(s) - Len(pat)) : SubSeq(s, i + 1, i + Len(pat)) = pat

\* s.is_char_boundary(i)
is_char_boundary(s, i) == i = 0 \/ i = Len(s) \/ (i < Len(s) /\ s[i + 1] # CONT)

\* len_utf8 of the scalar value that starts at byte i
RECURSIVE len_utf8(_, _)
len_utf8(s, i) ==
    IF i + 1 < Len(s) /\ s[i + 2] = CONT THEN 1 + len_utf8(s, i + 1) ELSE 1

\* len_utf16 of the scalar value that starts at byte i
len_utf16(s, i) == IF len_utf8(s, i) = 4 THEN 2 ELSE 1

\* text.encode_utf16().count()
\* the UTF-16 units of the scalar values that start at byte i or later: one for
\* each, and a second one for each that takes four bytes
utf16_len_from(s, i) ==
    LET starts == { k \in i..(Len(s) - 1) : s[k + 1] # CONT } IN
    Cardinality(starts) + Cardinality({ k \in starts : len_utf16(s, k) = 2 })

utf16_len(s) == utf16_len_from(s, 0)

----------------------------------------------------------------------------
(* config.rs : Config, serde_json::Value and load_config *)

DefaultMaxResults == 80
DefaultCacheTtlMs == 500
DefaultCacheMaxDirs == 64

DefaultIgnoreGlobs ==
        << <<"*", "*", "/", ".", "g", "i", "t", "/", "*", "*">>,
           <<"*", "*", "/", ".", "v", "e", "n", "v", "/", "*", "*">>,
           <<"*", "*", "/", "v", "e", "n", "v", "/", "*", "*">>,
           <<"*", "*", "/", "_", "_", "p", "y", "c", "a", "c", "h", "e", "_", "_", "/", "*", "*">>,
           <<"*", "*", "/", ".", "p", "y", "t", "e", "s", "t", "_", "c", "a", "c", "h", "e", "/", "*", "*">>,
           <<"*", "*", "/", ".", "m", "y", "p", "y", "_", "c", "a", "c", "h", "e", "/", "*", "*">>,
           <<"*", "*", "/", ".", "r", "u", "f", "f", "_", "c", "a", "c", "h", "e", "/", "*", "*">>,
           <<"*", "*", "/", "n", "o", "d", "e", "_", "m", "o", "d", "u", "l", "e", "s", "/", "*", "*">> >>

Config_default ==
    [enable |-> TRUE,
     path_prefix_fallback |-> TRUE,
     context_gating |-> "Smart",
     base_dir |-> "FileDir",
     workspace_root_strategy |-> "LspRootUri",
     max_results |-> DefaultMaxResults,
     show_hidden |-> FALSE,
     include_files |-> TRUE,
     include_directories |-> TRUE,
     directory_trailing_slash |-> TRUE,
     ignore_globs |-> DefaultIgnoreGlobs,
     prefer_forward_slashes |-> TRUE,
     expand_tilde |-> TRUE,
     windows_enable_drive_prefix |-> TRUE,
     windows_enable_unc |-> TRUE,
     cache_ttl_ms |-> DefaultCacheTtlMs,
     cache_max_dirs |-> DefaultCacheMaxDirs,
     stat_strategy |-> "Lazy"]

\* serde_json::Value
JNull == [t |-> "null", v |-> <<>>]
JBool(b) == [t |-> "bool", v |-> b]
JNum(n) == [t |-> "number", v |-> n]
JStr(str) == [t |-> "string", v |-> str]
JArr(list) == [t |-> "array", v |-> list]
JObj(map) == [t |-> "object", v |-> map]

\* Value::get(key) as an Option
json_get(value, key) ==
    IF value.t = "object" /\ key \in DOMAIN value.v THEN Some(value.v[key]) ELSE None

\* Value::as_u64 succeeds on a non-negative integer
as_u64_ok(value) == value.t = "number" /\ value.v >= 0

select_settings_root(value) ==
    LET current == IF is_some(json_get(value, "settings"))
                   THEN unwrap(json_get(value, "settings")) ELSE value
        lsp == json_get(current, "lsp")
        server == IF is_some(lsp) THEN json_get(unwrap(lsp), "pathy") ELSE None IN
    IF is_some(server)
    THEN IF is_some(json_get(unwrap(server), "settings"))
         THEN json_get(unwrap(server), "settings")
         ELSE server
    ELSE IF is_some(json_get(current, "pathy")) THEN json_get(current, "pathy")
    ELSE IF current.t = "object" THEN Some(current)
    ELSE None

BoolKeys ==
    { "enable",
      "path_prefix_fallback",
      "show_hidden",
      "include_files",
      "include_directories",
      "directory_trailing_slash",
      "prefer_forward_slashes",
      "expand_tilde",
      "windows_enable_drive_prefix",
      "windows_enable_unc" }

\* the variants a string-valued key accepts, by the text that selects them
EnumKeys ==
    [context_gating |->
        [off |-> "Off", smart |-> "Smart", strict |-> "Strict"],
     base_dir |->
        [file_dir |-> "FileDir", workspace_root |-> "WorkspaceRoot", both |-> "Both"],
     workspace_root_strategy |->
        [lsp_root_uri |-> "LspRootUri", disabled |-> "Disabled"],
     stat_strategy |->
        [none |-> "None", lazy |-> "Lazy", eager |-> "Eager"]]

NumberKeys == {"max_results", "cache_ttl_ms", "cache_max_dirs"}

\* the ignore_globs arm: the strings of the array
globs_of(list) ==
    LET strs == SelectSeq(list, LAMBDA e : e.t = "string") IN
    [i \in 1..Len(strs) |-> strs[i].v]

\* one arm of the match on key: the config after it
apply_key(cfg, key, val) ==
    IF key \in BoolKeys
    THEN IF val.t = "bool" THEN [cfg EXCEPT ![key] = val.v] ELSE cfg
    ELSE IF key \in DOMAIN EnumKeys
    THEN IF val.t = "string" /\ val.v \in DOMAIN EnumKeys[key]
         THEN [cfg EXCEPT ![key] = EnumKeys[key][val.v]]
         ELSE cfg
    ELSE IF key \in NumberKeys
    THEN IF as_u64_ok(val) THEN [cfg EXCEPT ![key] = val.v] ELSE cfg
    ELSE IF key = "ignore_globs"
    THEN IF val.t = "array" /\ globs_of(val.v) # <<>>
         THEN [cfg EXCEPT !.ignore_globs = globs_of(val.v)]
         ELSE cfg
    ELSE cfg

\* one arm of the match on key: the number of warnings it pushes
warnings_of(key, val) ==
    IF key \in BoolKeys THEN (IF val.t = "bool" THEN 0 ELSE 1)
    ELSE IF key \in DOMAIN EnumKeys
    THEN (IF val.t = "string" /\ val.v \in DOMAIN EnumKeys[key] THEN 0 ELSE 1)
    ELSE IF key \in NumberKeys THEN (IF as_u64_ok(val) THEN 0 ELSE 1)
    ELSE IF key = "ignore_globs"
    THEN (IF val.t = "array"
          THEN Cardinality({i \in 1..Len(val.v) : val.v[i].t # "string"})
          ELSE 1)
    ELSE 0

\* the for loop over the map: the keys not yet visited
RECURSIVE apply_keys(_, _, _)
apply_keys(cfg, map, keys) ==
    IF keys = {} THEN cfg
    ELSE LET key == CHOOSE k \in keys : TRUE IN
         apply_keys(apply_key(cfg, key, map[key]), map, keys \ {key})

RECURSIVE count_warnings(_, _)
count_warnings(map, keys) ==
    IF keys = {} THEN 0
    ELSE LET key == CHOOSE k \in keys : TRUE IN
         warnings_of(key, map[key]) + count_warnings(map, keys \ {key})

\* load_config: the config it returns, the value it leaves in *warned and
\* whether it wrote the warning line to stderr
\* load_config after the loop over map: n warnings were pushed
loaded_with(cfg, n, warned) ==
    [config |-> cfg, warned |-> warned \/ n > 0, printed |-> n > 0 /\ ~warned]

\* load_config from the settings root on
load_from(root, warned) ==
    IF is_none(root) \/ unwrap(root).t # "object"
    THEN loaded_with(Config_default, 0, warned)
    ELSE loaded_with(apply_keys(Config_default, unwrap(root).v, DOMAIN unwrap(root).v),
                     count_warnings(unwrap(root).v, DOMAIN unwrap(root).v), warned)

load_config(value, warned) == load_from(select_settings_root(value), warned)

----------------------------------------------------------------------------
(* completion.rs : the string literal lexer *)

StringState(quote, delim_len, start_byte, is_raw, is_fstring) ==
    [quote |-> quote, delim_len |-> delim_len, start_byte |-> start_byte,
     is_raw |-> is_raw, is_fstring |-> is_fstring]

delim_of(st) == IF st.delim_len = 3 THEN <<st.quote, st.quote, st.quote>> ELSE <<>>

StringInfo(content, is_raw, is_fstring, start_byte, start_utf16) ==
    [content_before_cursor |-> content, is_raw |-> is_raw, is_fstring |-> is_fstring,
     string_start_byte |-> start_byte, string_start_utf16 |-> start_utf16]

\* the letters collected by the first loop of detect_prefix and the index it stops at
RECURSIVE prefix_scan(_, _, _)
prefix_scan(line, i, prefix) ==
    IF i > 0 /\ is_ascii_alphabetic(line[i])
    THEN LET p == Append(prefix, to_ascii_lowercase(line[i])) IN
         IF Len(p) >= 2 THEN [i |-> i - 1, prefix |-> p]
         ELSE prefix_scan(line, i - 1, p)
    ELSE [i |-> i, prefix |-> prefix]

\* (is_raw, is_fstring)
detect_prefix(line, quote_idx) ==
    LET r == prefix_scan(line, quote_idx, <<>>) IN
    IF r.i > 0 /\ (is_ascii_alphanumeric(line[r.i]) \/ line[r.i] = "_")
    THEN <<FALSE, FALSE>>
    ELSE << \E k \in 1..Len(r.prefix) : r.prefix[k] = "r",
            \E k \in 1..Len(r.prefix) : r.prefix[k] = "f" >>

RECURSIVE interpolation_depth(_, _, _, _)
interpolation_depth(content, is_raw, i, depth) ==
    IF i >= Len(content) THEN depth
    ELSE LET ch == content[i + 1]
             ch_len == len_utf8(content, i) IN
         IF ~is_raw /\ ch = "\\"
         THEN IF i + ch_len < Len(content)
              THEN interpolation_depth(content, is_raw,
                        i + ch_len + len_utf8(content, i + ch_len), depth)
              ELSE interpolation_depth(content, is_raw, i + ch_len, depth)
         ELSE IF ch = "{"
         THEN IF starts_with(slice_from(content, i + ch_len), <<"{">>)
              THEN interpolation_depth(content, is_raw, i + 2 * ch_len, depth)
              ELSE interpolation_depth(content, is_raw, i + ch_len, depth + 1)
         ELSE IF ch = "}"
         THEN IF starts_with(slice_from(content, i + ch_len), <<"}">>)
              THEN interpolation_depth(content, is_raw, i + 2 * ch_len, depth)
              ELSE interpolation_depth(content, is_raw, i + ch_len,
                        IF depth > 0 THEN depth - 1 ELSE depth)
         ELSE interpolation_depth(content, is_raw, i + ch_len, depth)

is_in_interpolation(content, is_raw) ==
    interpolation_depth(content, is_raw, 0, 0) > 0

\* extract_at_cursor taking the content up to the end of the line
extract_to_line_end(line, cursor_byte, in_string) ==
    IF is_some(in_string)
    THEN LET state == unwrap(in_string)
             content_start == state.start_byte + state.delim_len IN
         IF cursor_byte >= content_start
         THEN Some(Some(StringInfo(slice_from(line, content_start), state.is_raw,
                   state.is_fstring, state.start_byte,
                   utf16_len(slice(line, 0, content_start)))))
         ELSE None
    ELSE None

\* the block run when the scan reaches the cursor inside an open string:
\* <<>> when it does not return, else <<the value find_string_info returns>>
extract_at_cursor(line, cursor_byte, in_string) ==
    IF is_some(in_string)
    THEN LET state == unwrap(in_string)
             content_start == state.start_byte + state.delim_len IN
         IF cursor_byte >= content_start
         THEN LET content == slice(line, content_start, cursor_byte) IN
              IF state.is_fstring /\ is_in_interpolation(content, state.is_raw)
              THEN Some(None)
              ELSE Some(Some(StringInfo(content, state.is_raw, state.is_fstring,
                        state.start_byte, utf16_len(slice(line, 0, content_start)))))
         ELSE None
    ELSE None

\* the string state the scan holds when it leaves the while loop at or after byte i
RECURSIVE scan_line(_, _, _, _)
scan_line(line, cursor_byte, i, in_string) ==
    IF i >= Len(line)
    THEN IF cursor_byte = Len(line) /\ is_some(extract_at_cursor(line, cursor_byte, in_string))
         THEN unwrap(extract_at_cursor(line, cursor_byte, in_string))
         ELSE None
    ELSE IF i = cursor_byte /\ is_some(extract_at_cursor(line, cursor_byte, in_string))
    THEN unwrap(extract_at_cursor(line, cursor_byte, in_string))
    ELSE LET ch == line[i + 1]
             ch_len == len_utf8(line, i) IN
         IF is_none(in_string) /\ ch = "#"
         THEN scan_line(line, cursor_byte, Len(line), in_string)
         ELSE IF is_some(in_string)
         THEN LET state == unwrap(in_string) IN
              IF ~state.is_raw /\ ch = "\\" /\ i + ch_len < Len(line)
              THEN scan_line(line, cursor_byte,
                             i + ch_len + len_utf8(line, i + ch_len), in_string)
              ELSE IF ~state.is_raw /\ ch = "\\"
              THEN scan_line(line, cursor_byte, i + ch_len + ch_len, in_string)
              ELSE IF state.delim_len = 1 /\ ch = state.quote
              THEN scan_line(line, cursor_byte, i + ch_len, None)
              ELSE IF state.delim_len = 3 /\ starts_with(slice_from(line, i), delim_of(state))
              THEN scan_line(line, cursor_byte, i + state.delim_len, None)
              ELSE scan_line(line, cursor_byte, i + ch_len, in_string)
         ELSE IF ch = "'" \/ ch = "\""
         THEN LET pre == detect_prefix(line, i)
                  delim_len == IF starts_with(slice_from(line, i), <<"\"", "\"", "\"">>)
                                  \/ starts_with(slice_from(line, i), <<"'", "'", "'">>)
                               THEN 3 ELSE 1 IN
              scan_line(line, cursor_byte, i + ch_len,
                        Some(StringState(ch, delim_len, i, pre[1], pre[2])))
         ELSE scan_line(line, cursor_byte, i + ch_len, in_string)

find_string_info(line, cursor_byte) == scan_line(line, cursor_byte, 0, None)

----------------------------------------------------------------------------
(* completion.rs : the path query classifier *)

PathQuery(dir_part, segment_prefix, path_str, prefix_kind) ==
    [dir_part |-> dir_part, segment_prefix |-> segment_prefix,
     path_str |-> path_str, prefix_kind |-> prefix_kind]

is_windows_drive_prefix(s) ==
    /\ Len(s) >= 2
    /\ is_ascii_alphabetic(s[1])
    /\ s[2] = ":"
    /\ Len(s) >= 3
    /\ s[3] \in {"\\", "/"}

\* the condition of the if without the two configuration flags
looks_like_path_ignoring_flags(remainder, cfg) ==
    \/ starts_with(remainder, <<".", ".", "/">>)
    \/ starts_with(remainder, <<".", "/">>)
    \/ starts_with(remainder, <<"/">>)
    \/ starts_with(remainder, <<"~">>)
    \/ starts_with(remainder, <<"\\", "\\">>)
    \/ is_windows_drive_prefix(remainder)

\* the condition of the if at completion.rs:224-229
looks_like_path(remainder, cfg) ==
    \/ starts_with(remainder, <<".", ".", "/">>)
    \/ starts_with(remainder, <<".", "/">>)
    \/ starts_with(remainder, <<"/">>)
    \/ starts_with(remainder, <<"~">>)
    \/ (cfg.windows_enable_unc /\ starts_with(remainder, <<"\\", "\\">>))
    \/ (cfg.windows_enable_drive_prefix /\ is_windows_drive_prefix(remainder))

\* the for loop of find_prefix_query from byte idx on: the value of last_start
RECURSIVE last_start_from(_, _, _, _, _)
last_start_from(content, cfg, idx, prev_char, last_start) ==
    IF idx >= Len(content) THEN last_start
    ELSE LET ch == content[idx + 1]
             next == idx + len_utf8(content, idx) IN
         IF is_some(prev_char) /\ ~is_whitespace(unwrap(prev_char))
         THEN last_start_from(content, cfg, next, Some(ch), last_start)
         ELSE last_start_from(content, cfg, next, Some(ch),
                  IF looks_like_path(slice_from(content, idx), cfg)
                  THEN Some(idx) ELSE last_start)

\* the last index of '/' or '\' in path_str, as an Option
RECURSIVE last_sep_from(_, _, _)
last_sep_from(path_str, idx, last_sep) ==
    IF idx >= Len(path_str) THEN last_sep
    ELSE last_sep_from(path_str, idx + len_utf8(path_str, idx),
             IF path_str[idx + 1] \in {"/", "\\"} THEN Some(idx) ELSE last_sep)

\* split_dir_and_segment leaving the separator out of the directory part
split_without_separator(path_str) ==
    LET last_sep == last_sep_from(path_str, 0, None) IN
    IF is_some(last_sep)
    THEN << slice(path_str, 0, unwrap(last_sep)),
            slice_from(path_str, unwrap(last_sep) + 1) >>
    ELSE << <<>>, path_str >>

split_dir_and_segment(path_str) ==
    LET last_sep == last_sep_from(path_str, 0, None) IN
    IF is_some(last_sep)
    THEN << slice(path_str, 0, unwrap(last_sep) + 1),
            slice_from(path_str, unwrap(last_sep) + 1) >>
    ELSE << <<>>, path_str >>

prefix_kind_for_path(path_str, cfg) ==
    IF starts_with(path_str, <<"~">>) THEN "Home"
    ELSE IF starts_with(path_str, <<"/">>) THEN "Absolute"
    ELSE IF cfg.windows_enable_unc /\ starts_with(path_str, <<"\\", "\\">>)
    THEN "WindowsUnc"
    ELSE IF cfg.windows_enable_drive_prefix /\ is_windows_drive_prefix(path_str)
    THEN "WindowsDrive"
    ELSE "Relative"

find_prefix_query(content_before_cursor, cfg) ==
    IF content_before_cursor = <<>> THEN None
    ELSE LET last_start == last_start_from(content_before_cursor, cfg, 0, None, None) IN
         IF is_none(last_start) THEN None
         ELSE LET path_str == slice_from(content_before_cursor, unwrap(last_start))
                  parts == split_dir_and_segment(path_str) IN
              Some(PathQuery(parts[1], parts[2], path_str,
                             prefix_kind_for_path(path_str, cfg)))

build_relative_query(content_before_cursor) ==
    LET parts == split_dir_and_segment(content_before_cursor) IN
    PathQuery(parts[1], parts[2], content_before_cursor, "Relative")

segment_start_offset(content) ==
    LET last_sep == last_sep_from(content, 0, None) IN
    IF is_some(last_sep) THEN unwrap(last_sep) + 1 ELSE 0

----------------------------------------------------------------------------
(* context.rs : the call-context heuristic *)

CallLookback == 300
JoinLookback == 120

Ok(v) == [panic |-> FALSE, val |-> v]
Panic == [panic |-> TRUE, val |-> FALSE]

\* &text[offset.saturating_sub(n)..offset]; slicing off a char boundary panics
window_before(text, offset, n) ==
    LET window_start == Max(offset - n, 0) IN
    IF is_char_boundary(text, window_start) /\ is_char_boundary(text, offset)
    THEN Ok(slice(text, window_start, offset))
    ELSE Panic

\* the byte index at which the last scalar value of a non-empty s starts
last_char_start(s) ==
    CHOOSE i \in 0..(Len(s) - 1) :
        /\ s[i + 1] # CONT
        /\ \A j \in (i + 1)..(Len(s) - 1) : s[j + 1] = CONT

RECURSIVE trim_end(_)
trim_end(s) ==
    IF s # <<>> /\ is_whitespace(s[last_char_start(s) + 1])
    THEN trim_end(slice(s, 0, last_char_start(s)))
    ELSE s

RECURSIVE trim_start(_)
trim_start(s) ==
    IF s # <<>> /\ is_whitespace(s[1])
    THEN trim_start(slice_from(s, len_utf8(s, 0)))
    ELSE s

trim(s) == trim_end(trim_start(s))

\* s.rfind(pat) as an Option
rfind(s, pat) ==
    IF contains(s, pat)
    THEN Some(CHOOSE i \in 0..(Len(s) - Len(pat)) :
                /\ SubSeq(s, i + 1, i + Len(pat)) = pat
                /\ \A j \in (i + 1)..(Len(s) - Len(pat)) :
                      SubSeq(s, j + 1, j + Len(pat)) # pat)
    ELSE None

CallContext(full_name, base_name, arg_is_first, named_arg) ==
    [full_name |-> full_name, base_name |-> base_name,
     arg_is_first |-> arg_is_first, named_arg |-> named_arg]

is_name_char(ch) == is_ascii_alphanumeric(ch) \/ ch = "_" \/ ch = "."

\* the backward scan for the unmatched '(' over window[..i]: open_idx as an Option
RECURSIVE find_open_paren(_, _, _)
find_open_paren(window, i, depth) ==
    IF i = 0 THEN None
    ELSE IF window[i] = ")" THEN find_open_paren(window, i - 1, depth + 1)
    ELSE IF window[i] = "("
    THEN IF depth = 0 THEN Some(i - 1)
         ELSE find_open_paren(window, i - 1, depth - 1)
    ELSE find_open_paren(window, i - 1, depth)

\* the byte index after the last scalar value of before[..i] that is no name char
RECURSIVE name_start_of(_, _)
name_start_of(before, i) ==
    IF i = 0 THEN 0
    ELSE IF is_name_char(before[i]) THEN name_start_of(before, i - 1)
    ELSE i

\* (arg_is_first, named_arg)
analyze_arg_text(arg_text) ==
    LET trimmed == trim(arg_text) IN
    IF trimmed = <<>> THEN <<TRUE, None>>
    ELSE IF contains(trimmed, <<",">>) THEN <<FALSE, None>>
    ELSE IF is_some(rfind(trimmed, <<"=">>))
            /\ trim(slice(trimmed, 0, unwrap(rfind(trimmed, <<"=">>)))) # <<>>
    THEN <<FALSE, Some(trim(slice(trimmed, 0, unwrap(rfind(trimmed, <<"=">>)))))>>
    ELSE <<FALSE, None>>

\* full_name.rsplit('.').next()
base_name_of(full_name) ==
    LET dot == rfind(full_name, <<".">>) IN
    IF is_some(dot) THEN slice_from(full_name, unwrap(dot) + 1) ELSE full_name

\* detect_call_context from full_name on
call_context_of(full_name, arg_info) ==
    IF full_name = <<>> THEN Ok(None)
    ELSE Ok(Some(CallContext(full_name, base_name_of(full_name), arg_info[1], arg_info[2])))

\* detect_call_context from before and arg_text on
call_context_before(before, arg_text) ==
    call_context_of(slice_from(before, name_start_of(before, Len(before))),
                    analyze_arg_text(arg_text))

\* detect_call_context from the search for the open parenthesis on
call_context_at(window, open_idx) ==
    IF is_none(open_idx) THEN Ok(None)
    ELSE call_context_before(trim_end(slice(window, 0, unwrap(open_idx))),
                             slice_from(window, unwrap(open_idx) + 1))

\* detect_call_context once the window is sliced: w is the slice or the panic
call_context_in(w) ==
    IF w.panic THEN Panic
    ELSE call_context_at(w.val, find_open_paren(w.val, Len(w.val), 0))

detect_call_context(text, string_start_offset) ==
    call_context_in(window_before(text, string_start_offset, CallLookback))

KnownPathFunctions ==
    { <<"r", "e", "a", "d", "_", "c", "s", "v">>,
      <<"r", "e", "a", "d", "_", "p", "a", "r", "q", "u", "e", "t">>,
      <<"r", "e", "a", "d", "_", "j", "s", "o", "n">>,
      <<"r", "e", "a", "d", "_", "e", "x", "c", "e", "l">>,
      <<"r", "e", "a", "d", "_", "t", "a", "b", "l", "e">> }

matches_known_path_function(full, base) ==
    \/ base \in { <<"o", "p", "e", "n">>, <<"P", "a", "t", "h">> }
    \/ base \in KnownPathFunctions
    \/ \E f \in KnownPathFunctions : ends_with(full, <<".">> \o f)
    \/ ends_with(full, <<".", "P", "a", "t", "h">>)

matches_named_path_arg(name) ==
    name \in { <<"p", "a", "t", "h">>,
               <<"f", "i", "l", "e", "p", "a", "t", "h">>,
               <<"f", "i", "l", "e", "n", "a", "m", "e">>,
               <<"f", "i", "l", "e">>,
               <<"f", "n", "a", "m", "e">> }

\* path_join_operator_context from path_start on
join_context_from(window, path_start) ==
    IF is_none(path_start) THEN Ok(FALSE)
    ELSE Ok(contains(slice_from(window, unwrap(path_start)), <<"/">>))

\* path_pos.or(path_mod_pos)
or(path_pos, path_mod_pos) == IF is_some(path_pos) THEN path_pos ELSE path_mod_pos

\* path_join_operator_context once the window is sliced: w is the slice or the panic
join_context_in(w) ==
    IF w.panic THEN Panic
    ELSE join_context_from(w.val,
             or(rfind(w.val, <<"P", "a", "t", "h", "(">>),
                rfind(w.val, <<"p", "a", "t", "h", "l", "i", "b", ".",
                               "P", "a", "t", "h", "(">>)))

path_join_operator_context(text, string_start_offset) ==
    join_context_in(window_before(text, string_start_offset, JoinLookback))

\* is_path_context once detect_call_context has returned: c is its value or the panic
path_context_of(c, text, string_start_offset) ==
    IF c.panic THEN Panic
    ELSE IF is_some(c.val)
            /\ ~unwrap(c.val).arg_is_first /\ is_none(unwrap(c.val).named_arg)
    THEN Ok(FALSE)
    ELSE IF is_some(c.val)
            /\ matches_known_path_function(unwrap(c.val).full_name, unwrap(c.val).base_name)
    THEN Ok(TRUE)
    ELSE IF is_some(c.val) /\ is_some(unwrap(c.val).named_arg)
            /\ matches_named_path_arg(unwrap(unwrap(c.val).named_arg))
    THEN Ok(TRUE)
    ELSE path_join_operator_context(text, string_start_offset)

is_path_context(text, string_start_offset) ==
    path_context_of(detect_call_context(text, string_start_offset),
                    text, string_start_offset)

----------------------------------------------------------------------------
(* std::path::Path on a Unix build: equality is by components *)

\* s.split(seps) from element i on, cur being the part collected so far; one
\* step of the recursion per part
RECURSIVE split_on(_, _, _, _)
split_on(s, seps, i, cur) ==
    IF \E j \in i..Len(s) : s[j] \in seps
    THEN LET next == CHOOSE j \in i..Len(s) :
                         s[j] \in seps /\ \A k \in i..(j - 1) : s[k] \notin seps IN
         <<cur \o SubSeq(s, i, next - 1)>> \o split_on(s, seps, next + 1, <<>>)
    ELSE <<cur \o SubSeq(s, i, Len(s))>>

RECURSIVE keep_components(_, _, _)
keep_components(parts, i, rooted) ==
    IF i > Len(parts) THEN <<>>
    ELSE IF parts[i] = <<>> THEN keep_components(parts, i + 1, rooted)
    ELSE IF parts[i] = <<".">> /\ (rooted \/ i > 1)
         THEN keep_components(parts, i + 1, rooted)
    ELSE <<parts[i]>> \o keep_components(parts, i + 1, rooted)

has_root(p) == Len(p) > 0 /\ p[1] = "/"

components(p) ==
    (IF has_root(p) THEN << <<"/">> >> ELSE <<>>)
        \o keep_components(split_on(p, {"/"}, 1, <<>>), 1, has_root(p))

path_eq(a, b) == a = b \/ components(a) = components(b)

\* the path text of a component list
RECURSIVE join_components(_, _)
join_components(cs, i) ==
    IF i > Len(cs) THEN <<>>
    ELSE IF cs[i] = <<"/">> THEN <<"/">> \o join_components(cs, i + 1)
    ELSE cs[i] \o (IF i < Len(cs) THEN <<"/">> ELSE <<>>) \o join_components(cs, i + 1)

\* Path::parent as an Option: none for the root and for the empty path
parent(p) ==
    LET cs == components(p) IN
    IF cs = <<>> \/ cs[Len(cs)] = <<"/">> THEN None
    ELSE Some(join_components(SubSeq(cs, 1, Len(cs) - 1), 1))

\* Path::join with a relative part
join(base, part) ==
    IF has_root(part) THEN part
    ELSE IF base = <<>> \/ base[Len(base)] = "/" THEN base \o part
    ELSE base \o <<"/">> \o part

----------------------------------------------------------------------------
(* completion.rs : the directory resolver *)

\* the process environment read by dirs_home: HOME, else USERPROFILE
EnvHome == Some(<<"/", "h">>)

dirs_home == EnvHome

\* the for loop of apply_relative_dir over parts[i..]
RECURSIVE apply_parts(_, _, _)
apply_parts(current, parts, i) ==
    IF i > Len(parts) THEN current
    ELSE IF parts[i] = <<>> \/ parts[i] = <<".">>
    THEN apply_parts(current, parts, i + 1)
    ELSE IF parts[i] = <<".", ".">>
    THEN apply_parts(IF is_some(parent(current)) THEN unwrap(parent(current))
                     ELSE current, parts, i + 1)
    ELSE apply_parts(join(current, parts[i]), parts, i + 1)

apply_relative_dir(base, dir_part) ==
    apply_parts(base, split_on(dir_part, {"/", "\\"}, 1, <<>>), 1)

RECURSIVE trim_start_matches(_, _)
trim_start_matches(s, ch) ==
    IF s # <<>> /\ s[1] = ch THEN trim_start_matches(Tail(s), ch) ELSE s

\* Url {scheme, path}; to_file_path succeeds for the file scheme
Url(scheme, path) == [scheme |-> scheme, path |-> path]

base_dir_from_uri(uri, root) ==
    IF uri.scheme = "file" /\ is_some(parent(uri.path)) THEN parent(uri.path)
    ELSE IF uri.scheme = "file" THEN None
    ELSE IF is_some(root) /\ unwrap(root).scheme = "file"
    THEN Some(unwrap(root).path)
    ELSE None

\* resolve_list_dirs pushing the workspace candidate without the comparison
resolve_list_dirs_without_dedup(query, file_dir, root_dir, cfg) ==
    CASE query.prefix_kind = "Home" ->
            IF ~cfg.expand_tilde THEN <<>>
            ELSE IF is_none(dirs_home) THEN <<>>
            ELSE << apply_relative_dir(unwrap(dirs_home),
                                       trim_start_matches(query.dir_part, "~")) >>
      [] query.prefix_kind \in {"Absolute", "WindowsDrive", "WindowsUnc"} ->
            << query.dir_part >>
      [] query.prefix_kind = "Relative" ->
            LET root == IF cfg.workspace_root_strategy = "LspRootUri"
                        THEN root_dir ELSE None
                from_file == IF is_some(file_dir)
                             THEN << apply_relative_dir(unwrap(file_dir), query.dir_part) >>
                             ELSE <<>>
                from_root == IF is_some(root)
                             THEN << apply_relative_dir(unwrap(root), query.dir_part) >>
                             ELSE <<>> IN
            CASE cfg.base_dir = "FileDir" -> from_file
              [] cfg.base_dir = "WorkspaceRoot" -> from_root
              [] cfg.base_dir = "Both" -> from_file \o from_root

resolve_list_dirs(query, file_dir, root_dir, cfg) ==
    CASE query.prefix_kind = "Home" ->
            IF ~cfg.expand_tilde THEN <<>>
            ELSE IF is_none(dirs_home) THEN <<>>
            ELSE << apply_relative_dir(unwrap(dirs_home),
                                       trim_start_matches(query.dir_part, "~")) >>
      [] query.prefix_kind \in {"Absolute", "WindowsDrive", "WindowsUnc"} ->
            << query.dir_part >>
      [] query.prefix_kind = "Relative" ->
            LET root == IF cfg.workspace_root_strategy = "LspRootUri"
                        THEN root_dir ELSE None
                from_file == IF is_some(file_dir)
                             THEN << apply_relative_dir(unwrap(file_dir), query.dir_part) >>
                             ELSE <<>>
                from_root == IF is_some(root)
                             THEN << apply_relative_dir(unwrap(root), query.dir_part) >>
                             ELSE <<>> IN
            CASE cfg.base_dir = "FileDir" -> from_file
              [] cfg.base_dir = "WorkspaceRoot" -> from_root
              [] cfg.base_dir = "Both" ->
                    IF from_root # <<>>
                       /\ \A i \in 1..Len(from_file) : ~path_eq(from_file[i], from_root[1])
                    THEN from_file \o from_root
                    ELSE from_file

----------------------------------------------------------------------------
(* completion.rs : the glob matcher and the entry filter *)

Char(c) == [kind |-> "Char", c |-> c]
Star == [kind |-> "Star", c |-> ""]
GlobStar == [kind |-> "GlobStar", c |-> ""]

RECURSIVE tokenize_from(_, _)
tokenize_from(bytes, i) ==
    IF i >= Len(bytes) THEN <<>>
    ELSE IF bytes[i + 1] = "*"
    THEN IF i + 1 < Len(bytes) /\ bytes[i + 2] = "*"
         THEN <<GlobStar>> \o tokenize_from(bytes, i + 2)
         ELSE <<Star>> \o tokenize_from(bytes, i + 1)
    ELSE <<Char(bytes[i + 1])>> \o tokenize_from(bytes, i + 1)

tokenize_glob(pattern) == tokenize_from(pattern, 0)

\* memo.insert((ti, xi), matched)
memo_insert(memo, key, matched) ==
    [k \in DOMAIN memo \cup {key} |-> IF k = key THEN matched ELSE memo[k]]

\* glob_match_tokens and the while loop of its wildcard arms; both give the
\* answer together with the memo table they leave
RECURSIVE glob_match_tokens(_, _, _, _, _)
RECURSIVE wildcard_loop(_, _, _, _, _, _)

wildcard_loop(tokens, text, ti, j, memo, stop_at_slash) ==
    IF j > Len(text) THEN [matched |-> FALSE, memo |-> memo]
    ELSE IF stop_at_slash /\ j < Len(text) /\ text[j + 1] = "/"
    THEN [matched |-> FALSE, memo |-> memo]
    ELSE LET r == glob_match_tokens(tokens, text, ti + 1, j, memo) IN
         IF r.matched THEN r
         ELSE wildcard_loop(tokens, text, ti, j + 1, r.memo, stop_at_slash)

glob_match_tokens(tokens, text, ti, xi, memo) ==
    IF <<ti, xi>> \in DOMAIN memo THEN [matched |-> memo[<<ti, xi>>], memo |-> memo]
    ELSE LET r ==
                IF ti = Len(tokens) THEN [matched |-> xi = Len(text), memo |-> memo]
                ELSE LET tok == tokens[ti + 1] IN
                     CASE tok.kind = "Char" ->
                            IF xi < Len(text) /\ text[xi + 1] = tok.c
                            THEN glob_match_tokens(tokens, text, ti + 1, xi + 1, memo)
                            ELSE [matched |-> FALSE, memo |-> memo]
                       [] tok.kind = "Star" ->
                            wildcard_loop(tokens, text, ti, xi, memo, TRUE)
                       [] tok.kind = "GlobStar" ->
                            wildcard_loop(tokens, text, ti, xi, memo, FALSE)
         IN [matched |-> r.matched, memo |-> memo_insert(r.memo, <<ti, xi>>, r.matched)]

glob_match(pattern, text) ==
    glob_match_tokens(tokenize_glob(pattern), text, 0, 0, <<>>).matched

\* path.to_string_lossy().replace('\\', "/")
normalize_for_match(path) ==
    [i \in 1..Len(path) |-> IF path[i] = "\\" THEN "/" ELSE path[i]]

\* the closure passed to filter
keeps(entry, segment_prefix, cfg) ==
    /\ ~(~cfg.show_hidden /\ starts_with(entry.name, <<".">>))
    /\ ~(~cfg.include_directories /\ entry.is_dir)
    /\ ~(~cfg.include_files /\ ~entry.is_dir)
    /\ starts_with(entry.name, segment_prefix)
    /\ ~\E k \in 1..Len(cfg.ignore_globs) :
            glob_match(cfg.ignore_globs[k], normalize_for_match(entry.path))

\* byte-wise order of str: a < b
RECURSIVE str_lt(_, _, _)
str_lt(a, b, i) ==
    IF i > Len(a) THEN i <= Len(b)
    ELSE IF i > Len(b) THEN FALSE
    ELSE IF a[i] = b[i] THEN str_lt(a, b, i + 1)
    ELSE byte_lt(a[i], b[i])

\* b_dir.cmp(a_dir).then_with(|| a_name.cmp(b_name)) is Less
entry_lt(a, b) ==
    \/ (a.is_dir /\ ~b.is_dir)
    \/ (a.is_dir = b.is_dir /\ str_lt(a.name, b.name, 1))

\* stable insertion of e into a sorted list
RECURSIVE insert_sorted(_, _)
insert_sorted(sorted, e) ==
    IF sorted = <<>> THEN <<e>>
    ELSE IF entry_lt(e, Head(sorted)) THEN <<e>> \o sorted
    ELSE <<Head(sorted)>> \o insert_sorted(Tail(sorted), e)

\* Vec::sort_by, a stable sort
RECURSIVE sort_by(_, _)
sort_by(list, sorted) ==
    IF list = <<>> THEN sorted
    ELSE sort_by(Tail(list), insert_sorted(sorted, Head(list)))

filter_entries(entries, segment_prefix, cfg) ==
    LET filtered == SelectSeq(entries, LAMBDA e : keeps(e, segment_prefix, cfg))
        pairs == [i \in 1..Len(filtered) |->
                    [name |-> filtered[i].name, is_dir |-> filtered[i].is_dir]] IN
    sort_by(pairs, <<>>)


----------------------------------------------------------------------------
(* cache.rs : DirCache *)

DirEntryInfo(name, is_dir) == [name |-> name, is_dir |-> is_dir]

CacheEntry(dir, items, timestamp) ==
    [dir |-> dir, items |-> items, timestamp |-> timestamp]

DirCache_new(t, m) == [ttl |-> t, max_entries |-> m, entries |-> <<>>]

\* entries.iter().position(|entry| entry.dir == dir), 0 when there is none
position(es, dir) ==
    IF \E i \in 1..Len(es) : path_eq(es[i].dir, dir)
    THEN CHOOSE i \in 1..Len(es) :
            /\ path_eq(es[i].dir, dir)
            /\ \A j \in 1..(i - 1) : ~path_eq(es[j].dir, dir)
    ELSE 0

\* evict with the loop condition off by one
RECURSIVE evict_off_by_one(_, _)
evict_off_by_one(es, m) ==
    IF Len(es) > m + 1 THEN evict_off_by_one(pop_back(es), m) ELSE es

\* while self.entries.len() > self.max_entries { self.entries.pop_back(); }
RECURSIVE evict(_, _)
evict(es, m) == IF Len(es) > m THEN evict(pop_back(es), m) ELSE es

\* get that returns a hit without moving the entry to the front
DirCache_get_no_refresh(c, dir, t) ==
    LET pos == position(c.entries, dir) IN
    IF pos # 0
    THEN LET entry == c.entries[pos]
             rest == RemoveAt(c.entries, pos) IN
         IF t - entry.timestamp <= c.ttl
         THEN [cache |-> c, ret |-> Some(entry.items)]
         ELSE [cache |-> [c EXCEPT !.entries = rest], ret |-> None]
    ELSE [cache |-> c, ret |-> None]

\* get that never looks at the age of the entry
DirCache_get_no_ttl(c, dir, t) ==
    LET pos == position(c.entries, dir) IN
    IF pos # 0
    THEN LET entry == c.entries[pos]
             rest == RemoveAt(c.entries, pos) IN
         [cache |-> [c EXCEPT !.entries = push_front(rest, entry)],
          ret |-> Some(entry.items)]
    ELSE [cache |-> c, ret |-> None]

DirCache_get(c, dir, t) ==
    LET pos == position(c.entries, dir) IN
    IF pos # 0
    THEN LET entry == c.entries[pos]
             rest == RemoveAt(c.entries, pos) IN
         IF t - entry.timestamp <= c.ttl
         THEN [cache |-> [c EXCEPT !.entries = push_front(rest, entry)],
               ret |-> Some(entry.items)]
         ELSE [cache |-> [c EXCEPT !.entries = rest], ret |-> None]
    ELSE [cache |-> c, ret |-> None]

\* insert that keeps the listing of an entry it finds
DirCache_insert_keeps_old(c, dir, items, t) ==
    LET pos == position(c.entries, dir)
        rest == IF pos # 0 THEN RemoveAt(c.entries, pos) ELSE c.entries
        kept == IF pos # 0 THEN c.entries[pos].items ELSE items
        pushed == push_front(rest, CacheEntry(dir, kept, t)) IN
    [c EXCEPT !.entries = evict(pushed, c.max_entries)]

DirCache_insert(c, dir, items, t) ==
    LET pos == position(c.entries, dir)
        rest == IF pos # 0 THEN RemoveAt(c.entries, pos) ELSE c.entries
        pushed == push_front(rest, CacheEntry(dir, items, t)) IN
    [c EXCEPT !.entries = evict(pushed, c.max_entries)]

\* update_limits removing from the front of the entries
DirCache_update_limits_drops_newest(c, t, m) ==
    [ttl |-> t, max_entries |-> m,
     entries |-> SubSeq(c.entries, Len(c.entries) - Min(Len(c.entries), m) + 1,
                        Len(c.entries))]

DirCache_update_limits(c, t, m) ==
    [ttl |-> t, max_entries |-> m, entries |-> evict(c.entries, m)]

----------------------------------------------------------------------------
(* main.rs : the completion request *)

\* the directories of the machine as std::fs::read_dir yields them; an element
\* is an entry (name, is_dir) or a failed entry read
DirEntry(name, is_dir) == [err |-> FALSE, name |-> name, is_dir |-> is_dir]
EntryError == [err |-> TRUE, name |-> <<>>, is_dir |-> FALSE]

DirSrc == <<"/", "p", "/", "s">>
DirRoot == <<"/", "p">>
DirHome == unwrap(EnvHome)

FileSystem ==
    [d \in {DirSrc, DirRoot, DirHome} |->
        IF d = DirSrc
        THEN << DirEntry(<<"f", "o", "o", ".", "t", "x", "t">>, FALSE),
                DirEntry(<<"f", "o", "o">>, TRUE),
                DirEntry(<<"b">>, FALSE) >>
        ELSE IF d = DirHome
        THEN << DirEntry(<<"~", "b", "a", "k">>, FALSE),
                DirEntry(<<"d", "o", "c", "s">>, TRUE) >>
        ELSE << DirEntry(<<"s">>, TRUE),
                EntryError,
                DirEntry(<<"f", "o", "o">>, FALSE),
                DirEntry(<<"b">>, FALSE),
                DirEntry(<<".", "g", "i", "t">>, TRUE) >>]

\* std::fs::read_dir(dir).ok()
read_dir(dir) ==
    IF \E d \in DOMAIN FileSystem : path_eq(d, dir)
    THEN Some(FileSystem[CHOOSE d \in DOMAIN FileSystem : path_eq(d, dir)])
    ELSE None

\* text.split('\n').nth(line)
get_line(text, line) ==
    LET parts == split_on(text, {"\n"}, 1, <<>>) IN
    IF line < Len(parts) THEN Some(parts[line + 1]) ELSE None

RECURSIVE offset_of_part(_, _)
offset_of_part(parts, k) ==
    IF k = 0 THEN 0 ELSE offset_of_part(parts, k - 1) + Len(parts[k]) + 1

line_start_offset(text, line) ==
    LET parts == split_on(text, {"\n"}, 1, <<>>) IN
    IF line < Len(parts) THEN Some(offset_of_part(parts, line)) ELSE None

RECURSIVE col_to_byte_from(_, _, _, _)
col_to_byte_from(line, col, idx, count) ==
    IF idx >= Len(line) THEN (IF count = col THEN Some(Len(line)) ELSE None)
    ELSE LET next == count + len_utf16(line, idx) IN
         IF next > col THEN Some(idx)
         ELSE IF next = col THEN Some(idx + len_utf8(line, idx))
         ELSE col_to_byte_from(line, col, idx + len_utf8(line, idx), next)

utf16_col_to_byte(line, col) == col_to_byte_from(line, col, 0, 0)

eq_ignore_ascii_case(a, b) ==
    /\ Len(a) = Len(b)
    /\ \A i \in 1..Len(a) : to_ascii_lowercase(a[i]) = to_ascii_lowercase(b[i])

is_python_document(uri, language_id) ==
    \/ (is_some(language_id)
        /\ eq_ignore_ascii_case(unwrap(language_id), <<"p", "y", "t", "h", "o", "n">>))
    \/ ends_with(uri.path, <<".", "p", "y">>)

\* the entries of a listing as list_dir_entries returns them: (name, is_dir, path)
Listed(name, is_dir, path) == [name |-> name, is_dir |-> is_dir, path |-> path]

\* the for loop over read_dir.take(max_results * 2)
read_entries(raw, cfg) ==
    LET taken == SubSeq(raw, 1, Min(Len(raw), cfg.max_results * 2))
        ok == SelectSeq(taken, LAMBDA e : ~e.err) IN
    [i \in 1..Len(ok) |->
        DirEntryInfo(ok[i].name,
                     IF cfg.stat_strategy = "None" THEN FALSE ELSE ok[i].is_dir)]

\* the map over the cached items and the pushes onto entries: (name, is_dir, path)
with_paths(dir, items) ==
    [i \in 1..Len(items) |->
        Listed(items[i].name, items[i].is_dir, join(dir, items[i].name))]

\* list_dir_entries after a cache miss and a successful read_dir
list_read(dir, c, items, t) ==
    [cache |-> DirCache_insert(c, dir, items, t),
     ret |-> Some(with_paths(dir, items)), from |-> "read"]

\* list_dir_entries caching an empty listing for a directory that cannot be read
list_after_get_caches_failure(dir, got, cfg, t) ==
    IF is_some(got.ret)
    THEN [cache |-> got.cache, ret |-> Some(with_paths(dir, unwrap(got.ret))),
          from |-> "cache"]
    ELSE IF is_none(read_dir(dir))
    THEN [cache |-> DirCache_insert(got.cache, dir, <<>>, t), ret |-> None,
          from |-> "error"]
    ELSE list_read(dir, got.cache, read_entries(unwrap(read_dir(dir)), cfg), t)

\* list_dir_entries after cache.get: got is the cache it left and what it returned
list_after_get(dir, got, cfg, t) ==
    IF is_some(got.ret)
    THEN [cache |-> got.cache, ret |-> Some(with_paths(dir, unwrap(got.ret))),
          from |-> "cache"]
    ELSE IF is_none(read_dir(dir))
    THEN [cache |-> got.cache, ret |-> None, from |-> "error"]
    ELSE list_read(dir, got.cache, read_entries(unwrap(read_dir(dir)), cfg), t)

\* list_dir_entries: the cache it leaves, what it returns and where it came from
list_dir_entries(dir, c, cfg, t) == list_after_get(dir, DirCache_get(c, dir, t), cfg, t)

\* entries.append(&mut listed) and the record of what list_dir_entries gave for dir
collect(dir, one, rest) ==
    [cache |-> rest.cache,
     entries |-> (IF is_some(one.ret) THEN unwrap(one.ret) ELSE <<>>) \o rest.entries,
     fed |-> << [dir |-> dir, listed |-> one.ret, from |-> one.from] >> \o rest.fed]

\* the for loop over list_dirs: the cache it leaves, the entries it collects and,
\* for each directory, what list_dir_entries gave
RECURSIVE list_all(_, _, _, _, _)
list_rest(list_dirs, i, one, cfg, t) ==
    collect(list_dirs[i], one, list_all(list_dirs, i + 1, one.cache, cfg, t))

list_all(list_dirs, i, c, cfg, t) ==
    IF i > Len(list_dirs) THEN [cache |-> c, entries |-> <<>>, fed |-> <<>>]
    ELSE list_rest(list_dirs, i, list_dir_entries(list_dirs[i], c, cfg, t), cfg, t)

separator_for_insertion(content_before_cursor, cfg) ==
    IF cfg.prefer_forward_slashes THEN "/"
    ELSE IF contains(content_before_cursor, <<"\\">>) THEN "\\"
    ELSE "/"

Position(line, character) == [line |-> line, character |-> character]
Range(start, end) == [start |-> start, end |-> end]

completion_item(name, is_dir, range, cfg, info) ==
    [label |-> name,
     kind |-> IF is_dir THEN "FOLDER" ELSE "FILE",
     range |-> range,
     new_text |-> IF is_dir /\ cfg.directory_trailing_slash
                  THEN Append(name, separator_for_insertion(info.content_before_cursor, cfg))
                  ELSE name]

\* is_completion_allowed with Smart deciding as Strict does
allowed_by_heuristic_only(cfg, text, has_prefix_fallback, string_start_offset) ==
    IF cfg.context_gating = "Off" THEN Ok(TRUE)
    ELSE is_path_context(text, string_start_offset)

is_completion_allowed(cfg, text, has_prefix_fallback, string_start_offset) ==
    CASE cfg.context_gating = "Strict" -> is_path_context(text, string_start_offset)
      [] cfg.context_gating = "Off" -> Ok(TRUE)
      [] cfg.context_gating = "Smart" ->
            IF has_prefix_fallback THEN Ok(TRUE)
            ELSE is_path_context(text, string_start_offset)

\* the loop that fills deduped from the first max_results elements of filtered
RECURSIVE dedup_from(_, _, _)
dedup_from(list, i, seen) ==
    IF i > Len(list) THEN <<>>
    ELSE IF list[i].name \in seen THEN dedup_from(list, i + 1, seen)
    ELSE <<list[i]>> \o dedup_from(list, i + 1, seen \cup {list[i].name})

\* take without the truncation
take_all(list, n) == list

take(list, n) == SubSeq(list, 1, Min(Len(list), n))

\* what completion_items leaves behind when it returns early
Early(c, stage) ==
    [items |-> <<>>, cache |-> c, stage |-> stage, fed |-> <<>>,
     info |-> None, query |-> None, has_prefix |-> FALSE]

\* the edit range: from the start of the segment to the cursor
range_of(cursor, info) ==
    Range(Position(cursor.line,
                   info.string_start_utf16
                     + utf16_len(slice(info.content_before_cursor, 0,
                                       segment_start_offset(info.content_before_cursor)))),
          cursor)

\* the map of deduped onto completion_item
items_of(deduped, range, cfg, info) ==
    [i \in 1..Len(deduped) |->
        completion_item(deduped[i].name, deduped[i].is_dir, range, cfg, info)]

\* completion_items from filter_entries on: all is what the loop over list_dirs left
completion_from_entries(all, cfg, cursor, info, query, has_prefix) ==
    [items |-> items_of(dedup_from(take(filter_entries(all.entries, query.segment_prefix,
                                                       cfg),
                                        cfg.max_results), 1, {}),
                        range_of(cursor, info), cfg, info),
     cache |-> all.cache, stage |-> "done", fed |-> all.fed,
     info |-> Some(info), query |-> Some(query), has_prefix |-> has_prefix]

\* what completion_items leaves behind when it returns after the lexer
Late(c, stage, info, query, has_prefix) ==
    [Early(c, stage) EXCEPT !.info = Some(info), !.query = query,
                            !.has_prefix = has_prefix]

\* completion_items from the loop over list_dirs on
completion_from_dirs(c, cfg, t, cursor, info, query, has_prefix, list_dirs) ==
    IF list_dirs = <<>> THEN Late(c, "no_dirs", info, Some(query), has_prefix)
    ELSE completion_from_entries(list_all(list_dirs, 1, c, cfg, t), cfg, cursor, info,
                                 query, has_prefix)

\* root_uri.as_ref().and_then(|uri| uri.to_file_path().ok())
root_dir_of(root) ==
    IF is_some(root) /\ unwrap(root).scheme = "file" THEN Some(unwrap(root).path) ELSE None

\* completion_items once the gate has let the request through
completion_from_query(c, cfg, root, t, doc_uri, cursor, info, query, has_prefix) ==
    completion_from_dirs(c, cfg, t, cursor, info, query, has_prefix,
        resolve_list_dirs(query, base_dir_from_uri(doc_uri, None), root_dir_of(root), cfg))

\* completion_items after is_completion_allowed: allowed is its value or the panic
completion_after_gate(c, cfg, root, t, doc_uri, cursor, info, prefix_query, allowed) ==
    IF allowed.panic THEN Late(c, "panic", info, None, is_some(prefix_query))
    ELSE IF ~allowed.val THEN Late(c, "gated", info, None, is_some(prefix_query))
    ELSE completion_from_query(c, cfg, root, t, doc_uri, cursor, info,
             IF is_some(prefix_query) THEN unwrap(prefix_query)
             ELSE build_relative_query(info.content_before_cursor),
             is_some(prefix_query))

\* completion_items from the gate on: prefix_query is computed
completion_at_gate(c, cfg, root, t, doc_uri, doc, cursor, info, start_offset, prefix_query) ==
    completion_after_gate(c, cfg, root, t, doc_uri, cursor, info, prefix_query,
        is_completion_allowed(cfg, doc.text, is_some(prefix_query),
                              start_offset + info.string_start_byte))

\* completion_items from the classification on: string info and document in hand
completion_from_gate(c, cfg, root, t, doc_uri, doc, cursor, info, start_offset) ==
    completion_at_gate(c, cfg, root, t, doc_uri, doc, cursor, info, start_offset,
        IF cfg.path_prefix_fallback
        THEN find_prefix_query(info.content_before_cursor, cfg)
        ELSE None)

\* completion_items from the lexer on: info is what find_string_info returned
completion_from_string(c, cfg, root, t, doc_uri, doc, cursor, info, start_offset) ==
    IF is_none(start_offset) THEN Early(c, "no_line")
    ELSE IF is_none(info) THEN Early(c, "no_string")
    ELSE completion_from_gate(c, cfg, root, t, doc_uri, doc, cursor, unwrap(info),
                              unwrap(start_offset))

\* completion_items from utf16_col_to_byte on
completion_from_cursor(c, cfg, root, t, doc_uri, doc, cursor, line, cursor_byte) ==
    IF is_none(cursor_byte) THEN Early(c, "no_cursor")
    ELSE completion_from_string(c, cfg, root, t, doc_uri, doc, cursor,
             find_string_info(line, unwrap(cursor_byte)),
             line_start_offset(doc.text, cursor.line))

\* completion_items from get_line on
completion_from_line(c, cfg, root, t, doc_uri, doc, cursor, line) ==
    IF is_none(line) THEN Early(c, "no_line")
    ELSE completion_from_cursor(c, cfg, root, t, doc_uri, doc, cursor, unwrap(line),
                                utf16_col_to_byte(unwrap(line), cursor.character))

\* completion_items: the items it returns, the cache it leaves, the place it
\* returned from and what it had computed by then
completion_items(c, cfg, docs, root, t, doc_uri, cursor) ==
    IF ~cfg.enable THEN Early(c, "disabled")
    ELSE IF doc_uri \notin DOMAIN docs THEN Early(c, "no_document")
    ELSE IF ~is_python_document(doc_uri, docs[doc_uri].language_id)
    THEN Early(c, "not_python")
    ELSE completion_from_line(c, cfg, root, t, doc_uri, docs[doc_uri], cursor,
                              get_line(docs[doc_uri].text, cursor.line))

----------------------------------------------------------------------------
(* main.rs : the server state and its message handlers *)

NoOp == [op |-> "none", dir |-> <<>>, items |-> <<>>, ret |-> None, note |-> "none"]

\* what the next call needs to know of the call before it
Summary(o) ==
    IF o.op = "insert" THEN [op |-> o.op, dir |-> o.dir, items |-> o.items]
    ELSE [op |-> "other", dir |-> <<>>, items |-> <<>>]

\* response holds no reply after a notification or a response; after a request it
\* holds the reply and, for a completion request, the request and what completion_items
\* had computed when it returned
NoResponse == [kind |-> "none", code |-> "none", request |-> None, items |-> <<>>,
               stage |-> "none", fed |-> <<>>, info |-> None, query |-> None,
               has_prefix |-> FALSE]

ErrorResponse(code) == [NoResponse EXCEPT !.kind = "error", !.code = code]

ResultResponse(uri, cursor, r) ==
    [kind |-> "result", code |-> "none",
     request |-> Some([uri |-> uri, cursor |-> cursor]),
     items |-> r.items, stage |-> r.stage,
     fed |-> r.fed, info |-> r.info, query |-> r.query, has_prefix |-> r.has_prefix]

DocumentState(text, language_id) == [text |-> text, language_id |-> language_id]

DocUri == Url("file", <<"/", "p", "/", "s", "/", "a", ".", "p", "y">>)
OtherUri == Url("file", <<"/", "p", "/", "s", "/", "n", ".", "t", "x", "t">>)
RootUri == Url("file", DirRoot)

\* the server variables of a start without initialization options, no document open
\* no pure function has been applied yet
NoProbe == [fn |-> "none", input |-> <<>>, output |-> <<>>]

ServerIdle ==
    /\ config = Config_default
    /\ config_warned = FALSE
    /\ warning_lines = 0
    /\ documents = <<>>
    /\ root_uri = Some(RootUri)
    /\ pending_config_request = None
    /\ next_request_id = 1
    /\ response = NoResponse
    /\ alive = TRUE

\* main up to the message loop: options is initialization_options as an Option
ServerStart(options, root) ==
    \E loaded \in { IF is_some(options) THEN load_config(unwrap(options), FALSE)
                    ELSE [config |-> Config_default, warned |-> FALSE,
                          printed |-> FALSE] } :
    /\ config = loaded.config
    /\ config_warned = loaded.warned
    /\ warning_lines = (IF loaded.printed THEN 1 ELSE 0)
    /\ cache = DirCache_new(loaded.config.cache_ttl_ms, loaded.config.cache_max_dirs)
    /\ documents = <<>>
    /\ root_uri = root
    /\ pending_config_request = None
    /\ next_request_id = 1
    /\ response = NoResponse
    /\ alive = TRUE
    /\ now = 0
    /\ lastOp = NoOp
    /\ prevOp = Summary(NoOp)
    /\ recency = <<>>
    /\ probe = NoProbe

\* apply_config_update without the call of update_limits
limits_kept(c, new_config) == c

\* cache.update_limits as apply_config_update calls it
limits_for(c, new_config) ==
    DirCache_update_limits(c, new_config.cache_ttl_ms, new_config.cache_max_dirs)

apply_config_update(value) ==
    \E loaded \in { load_config(value, config_warned) } :
    /\ cache' = limits_for(cache, loaded.config)
    /\ config' = loaded.config
    /\ config_warned' = loaded.warned
    /\ warning_lines' = warning_lines + (IF loaded.printed THEN 1 ELSE 0)

DidOpen(uri, text, language_id) ==
    /\ alive
    /\ documents' = [u \in DOMAIN documents \cup {uri} |->
                        IF u = uri THEN DocumentState(text, Some(language_id))
                        ELSE documents[u]]
    /\ response' = NoResponse
    /\ UNCHANGED <<cache, now, cacheVars, probe, config, config_warned, warning_lines, root_uri,
                   pending_config_request, next_request_id, alive>>

DidChange(uri, text) ==
    /\ alive
    /\ documents' = IF uri \in DOMAIN documents
                    THEN [documents EXCEPT ![uri].text = text]
                    ELSE documents
    /\ response' = NoResponse
    /\ UNCHANGED <<cache, now, cacheVars, probe, config, config_warned, warning_lines, root_uri,
                   pending_config_request, next_request_id, alive>>

DidChangeConfiguration(settings) ==
    /\ alive
    /\ apply_config_update(settings)
    /\ response' = NoResponse
    /\ UNCHANGED <<now, cacheVars, probe, documents, root_uri, pending_config_request,
                   next_request_id, alive>>

\* the "initialized" notification: request_workspace_config
Initialized ==
    /\ alive
    /\ next_request_id <= MaxRequestId
    /\ pending_config_request' = Some(next_request_id)
    /\ next_request_id' = next_request_id + 1
    /\ response' = NoResponse
    /\ UNCHANGED <<cache, now, cacheVars, probe, config, config_warned, warning_lines,
                   documents, root_uri, alive>>

\* handle_response applying the result whatever the id of the response
HandleResponse_any_id(id, result) ==
    /\ alive
    /\ response' = NoResponse
    /\ pending_config_request' = None
    /\ IF is_some(result)
       THEN apply_config_update(
                IF unwrap(result).t = "array" /\ unwrap(result).v # <<>>
                THEN unwrap(result).v[1]
                ELSE unwrap(result))
       ELSE UNCHANGED <<cache, config, config_warned, warning_lines>>
    /\ UNCHANGED <<now, cacheVars, probe, documents, root_uri, next_request_id, alive>>

\* handle_response: result is response.result as an Option
HandleResponse(id, result) ==
    /\ alive
    /\ response' = NoResponse
    /\ IF is_some(pending_config_request) /\ unwrap(pending_config_request) = id
       THEN /\ pending_config_request' = None
            /\ IF is_some(result)
               THEN apply_config_update(
                        IF unwrap(result).t = "array" /\ unwrap(result).v # <<>>
                        THEN unwrap(result).v[1]
                        ELSE unwrap(result))
               ELSE UNCHANGED <<cache, config, config_warned, warning_lines>>
       ELSE UNCHANGED <<cache, config, config_warned, warning_lines,
                        pending_config_request>>
    /\ UNCHANGED <<now, cacheVars, probe, documents, root_uri, next_request_id, alive>>

\* handle_request for textDocument/completion with well-formed params
Completion(uri, cursor) ==
    /\ alive
    /\ \E r \in {completion_items(cache, config, documents, root_uri, now, uri, cursor)} :
         /\ cache' = r.cache
         /\ response' = ResultResponse(uri, cursor, r)
         /\ alive' = (r.stage # "panic")
         /\ UNCHANGED <<now, cacheVars, probe, config, config_warned, warning_lines, documents,
                        root_uri, pending_config_request, next_request_id>>

\* handle_request for completion params that do not parse, and for another method
RejectedRequest(code) ==
    /\ alive
    /\ response' = ErrorResponse(code)
    /\ UNCHANGED <<cache, now, cacheVars, probe, config, config_warned, warning_lines, documents,
                   root_uri, pending_config_request, next_request_id, alive>>

ServerTick ==
    /\ alive
    /\ now < MaxTime
    /\ now' = now + 1
    /\ UNCHANGED <<cache, cacheVars, probe, serverVars>>

\* the cursors a request is sent with: on every line of the document, back columns
\* before the end of the line
Cursors(uri, backs) ==
    IF uri \in DOMAIN documents
    THEN LET text == documents[uri].text
             lines == split_on(text, {"\n"}, 1, <<>>) IN
         UNION { { Position(l - 1, utf16_len(lines[l]) - b) :
                      b \in { k \in backs : k <= utf16_len(lines[l]) } } :
                 l \in 1..Len(lines) }
    ELSE { Position(0, 0) }

----------------------------------------------------------------------------
(* The server under configuration updates and completion requests *)

ServerSettings ==
    { JObj(<<>>),
      JObj([max_results |-> JNum(1), base_dir |-> JStr("both")]),
      JObj([pathy |-> JObj([max_results |-> JNum(5), base_dir |-> JStr("both"),
                            cache_ttl_ms |-> JNum(0), cache_max_dirs |-> JNum(1)])]),
      JObj([max_results |-> JNum(0), cache_max_dirs |-> JNum(0),
            stat_strategy |-> JStr("none"), show_hidden |-> JStr("yes")]) }

ServerBuffers ==
    { <<"o", "p", "e", "n", "(", "\"">>,
      <<"x", " ", "=", " ", "1", "\n", "o", "p", "e", "n", "(", "\"", ".", ".", "/", "f", "o">> }

Languages == { <<"p", "y", "t", "h", "o", "n">> }

ServerInit ==
    \E options \in {None} \cup { Some(v) : v \in ServerSettings } :
        ServerStart(options, Some(RootUri))

ServerNext ==
    \/ \E text \in ServerBuffers, lang \in Languages : DidOpen(DocUri, text, lang)
    \/ \E text \in ServerBuffers : DidChange(DocUri, text)
    \/ \E settings \in ServerSettings : DidChangeConfiguration(settings)
    \/ Initialized
    \/ \E id \in 1..MaxRequestId, settings \in ServerSettings :
          \E result \in {None, Some(JArr(<<settings>>)), Some(JArr(<<>>))} :
              HandleResponse(id, result)
    \/ \E uri \in {DocUri, OtherUri} : \E cursor \in Cursors(uri, {0}) :
          Completion(uri, cursor)
    \/ \E code \in {"InvalidParams", "MethodNotFound"} : RejectedRequest(code)
    \/ ServerTick

SpecServer == ServerInit /\ [][ServerNext]_vars

----------------------------------------------------------------------------
(* The server under the gating modes *)

GateSettings ==
    { JObj(<<>>),
      JObj([context_gating |-> JStr("off")]),
      JObj([context_gating |-> JStr("strict")]),
      JObj([path_prefix_fallback |-> JBool(FALSE)]),
      JObj([path_prefix_fallback |-> JBool(FALSE), context_gating |-> JStr("off")]) }

PrintHello == <<"p", "r", "i", "n", "t", "(", "\"", "h", "e", "l", "l", "o", "\"", ")">>

GateBuffers ==
    { PrintHello,
      <<"o", "p", "e", "n", "(", "\"", "f", "o">>,
      <<"x", " ", "=", " ", "\"", ".", "/", "f", "o">>,
      <<"x", " ", "=", " ", "\"", "f", "o">> }

GateInit ==
    \E options \in {None} \cup { Some(v) : v \in GateSettings } :
        ServerStart(options, Some(RootUri))

GateNext ==
    \/ \E text \in GateBuffers, lang \in Languages : DidOpen(DocUri, text, lang)
    \/ \E text \in GateBuffers : DidChange(DocUri, text)
    \/ \E settings \in GateSettings : DidChangeConfiguration(settings)
    \/ Initialized
    \/ \E id \in 1..MaxRequestId, settings \in GateSettings :
          \E result \in {None, Some(settings), Some(JArr(<<settings>>)), Some(JArr(<<>>))} :
              HandleResponse(id, result)
    \/ \E uri \in {DocUri, OtherUri} : \E cursor \in Cursors(uri, {0, 2}) :
          Completion(uri, cursor)
    \/ \E code \in {"InvalidParams", "MethodNotFound"} : RejectedRequest(code)
    \/ ServerTick

SpecGate == GateInit /\ [][GateNext]_vars

----------------------------------------------------------------------------
(* The cache driven directly through its three operations *)

CacheDirs == { <<"/", "a">>, <<"/", "a", "/">>, <<"/", "b">>, <<"/", "c">> }

Listings ==
    { << DirEntryInfo(<<"x">>, FALSE) >>,
      << DirEntryInfo(<<"y">>, TRUE), DirEntryInfo(<<"x">>, FALSE) >> }

\* recency as the claims define it: a use of dir makes it the newest
touch(r, dir) ==
    push_front(SelectSeq(r, LAMBDA d : ~path_eq(d, dir)), dir)

\* an entry for dir exists and its age is within the TTL
fresh(c, dir, t) ==
    /\ position(c.entries, dir) # 0
    /\ t - c.entries[position(c.entries, dir)].timestamp <= c.ttl

\* an entry for dir exists and its age is beyond the TTL
expired(c, dir, t) ==
    /\ position(c.entries, dir) # 0
    /\ t - c.entries[position(c.entries, dir)].timestamp > c.ttl

\* the number of entries an insert of dir leaves before it enforces the capacity
size_after_push(c, dir) ==
    IF position(c.entries, dir) # 0 THEN Len(c.entries) ELSE Len(c.entries) + 1

CacheInit ==
    /\ \E t \in 0..MaxTtl, m \in 0..MaxCap : cache = DirCache_new(t, m)
    /\ now = 0
    /\ lastOp = NoOp
    /\ prevOp = Summary(NoOp)
    /\ recency = <<>>
    /\ ServerIdle
    /\ probe = NoProbe

Get(dir) ==
    LET r == DirCache_get(cache, dir, now) IN
    /\ cache' = r.cache
    /\ lastOp' = [op |-> "get", dir |-> dir, items |-> <<>>, ret |-> r.ret,
                  note |-> IF fresh(cache, dir, now) THEN "fresh"
                           ELSE IF expired(cache, dir, now) THEN "expired"
                           ELSE "absent"]
    /\ prevOp' = Summary(lastOp)
    /\ recency' = IF fresh(cache, dir, now) THEN touch(recency, dir) ELSE recency
    /\ UNCHANGED <<now, serverVars, probe>>

Insert(dir, items) ==
    /\ cache' = DirCache_insert(cache, dir, items, now)
    /\ lastOp' = [op |-> "insert", dir |-> dir, items |-> items, ret |-> None,
                  note |-> IF size_after_push(cache, dir) > cache.max_entries
                           THEN "overflow" ELSE "fits"]
    /\ prevOp' = Summary(lastOp)
    /\ recency' = touch(recency, dir)
    /\ UNCHANGED <<now, serverVars, probe>>

UpdateLimits(t, m) ==
    /\ cache' = DirCache_update_limits(cache, t, m)
    /\ lastOp' = [op |-> "update_limits", dir |-> <<>>, items |-> <<>>, ret |-> None,
                  note |-> IF Len(cache.entries) > m THEN "overflow" ELSE "fits"]
    /\ prevOp' = Summary(lastOp)
    /\ UNCHANGED <<now, recency, serverVars, probe>>

Tick ==
    /\ now < MaxTime
    /\ now' = now + 1
    /\ UNCHANGED <<cache, lastOp, prevOp, recency, serverVars, probe>>

CacheNext ==
    \/ \E dir \in CacheDirs : Get(dir)
    \/ \E dir \in CacheDirs, items \in Listings : Insert(dir, items)
    \/ \E t \in 0..MaxTtl, m \in 0..MaxCap : UpdateLimits(t, m)
    \/ Tick

Spec == CacheInit /\ [][CacheNext]_vars

----------------------------------------------------------------------------
(* Properties of the cache *)

holds(es, dir) == position(es, dir) # 0

\* the place of dir in a recency order, newest = 1
rank(r, dir) == CHOOSE i \in 1..Len(r) : path_eq(r[i], dir)

\* the step is a call of the named cache operation (Tick moves the clock)
IsCall(op) == lastOp'.op = op /\ now' = now

\* C1: after any sequence of get, insert and update_limits calls (max_entries = 0
\* included) no two cache entries share a directory and the number of entries
\* is at most the current max_entries
C1_NoDuplicateWithinCapacity ==
    /\ \A i, j \in 1..Len(cache.entries) :
          i # j => ~path_eq(cache.entries[i].dir, cache.entries[j].dir)
    /\ Len(cache.entries) <= cache.max_entries

C1_Witness ==
    /\ lastOp.op = "insert"
    /\ lastOp.note = "overflow"
    /\ cache.max_entries >= 2
    /\ Len(cache.entries) = cache.max_entries

\* C2: when an insert pushes the cache over max_entries the entries it removes
\* are less recently used (by insert or by a get hit within TTL) than every entry
\* it keeps, it removes no more than the overflow, and with max_entries >= 1 the
\* entry just inserted is kept
C2_EvictsLeastRecentlyUsed ==
    [][ (IsCall("insert") /\ lastOp'.note = "overflow") =>
          LET d == lastOp'.dir
              before == { cache.entries[i].dir : i \in 1..Len(cache.entries) } \cup {d}
          IN  /\ cache'.max_entries >= 1 => holds(cache'.entries, d)
              /\ Len(cache'.entries) = cache'.max_entries
              /\ \A x, y \in before :
                    (~holds(cache'.entries, x) /\ holds(cache'.entries, y))
                        => rank(recency', x) > rank(recency', y)
      ]_vars

C2_Witness ==
    /\ lastOp.op = "insert"
    /\ lastOp.note = "overflow"
    /\ cache.max_entries = 2
    /\ Len(cache.entries) = 2
    /\ Len(recency) = 3
    /\ ~holds(cache.entries, recency[3])
    /\ prevOp.op = "other"

\* C3: insert(d, L) followed by get(d) with nothing but time in between and the
\* entry's age within TTL returns L, puts d's entry first and leaves the order of
\* the other entries as it was
C3_InsertThenGet ==
    [][ ( /\ lastOp.op = "insert"
          /\ IsCall("get")
          /\ path_eq(lastOp'.dir, lastOp.dir)
          /\ fresh(cache, lastOp.dir, now) ) =>
          LET pos == position(cache.entries, lastOp.dir) IN
          /\ lastOp'.ret = Some(lastOp.items)
          /\ cache'.entries = <<cache.entries[pos]>> \o RemoveAt(cache.entries, pos)
      ]_vars

C3_Witness ==
    /\ lastOp.op = "get"
    /\ prevOp.op = "insert"
    /\ path_eq(prevOp.dir, lastOp.dir)
    /\ prevOp.dir # lastOp.dir
    /\ lastOp.note = "fresh"
    /\ lastOp.ret = Some(prevOp.items)
    /\ Len(cache.entries) >= 2
    /\ now > 0

CapacityEviction == lastOp'.op \in {"insert", "update_limits"} /\ lastOp'.note = "overflow"

\* C4 as stated: once an entry's TTL has elapsed get(d) returns nothing, and the
\* expired entry stays in the cache until a capacity eviction removes it
C4_ExpiredStaysUntilEvicted ==
    [][ \A dir \in CacheDirs : expired(cache, dir, now) =>
          /\ (IsCall("get") /\ path_eq(lastOp'.dir, dir)) => lastOp'.ret = None
          /\ holds(cache'.entries, dir) \/ CapacityEviction
      ]_vars

\* C4 amended: once an entry's TTL has elapsed get(d) returns nothing and drops
\* the entry; an expired entry stays in the cache until a get for its directory
\* or a capacity eviction removes it
C4_ExpiredStaysUntilReadOrEvicted ==
    [][ \A dir \in CacheDirs : expired(cache, dir, now) =>
          /\ (IsCall("get") /\ path_eq(lastOp'.dir, dir)) =>
                (lastOp'.ret = None /\ ~holds(cache'.entries, dir))
          /\ \/ holds(cache'.entries, dir)
             \/ CapacityEviction
             \/ (IsCall("get") /\ path_eq(lastOp'.dir, dir))
      ]_vars

C4_Witness ==
    /\ lastOp.op = "get"
    /\ lastOp.note = "expired"
    /\ lastOp.ret = None
    /\ ~holds(cache.entries, lastOp.dir)
    /\ Len(cache.entries) >= 1

----------------------------------------------------------------------------
(* Properties of the completion request *)

\* the reply of the last message is the reply to a completion request
Replied == response.kind = "result"

\* the completion request got as far as the gate: a string was found at the cursor
ReachedGate == Replied /\ response.stage \in {"gated", "no_dirs", "done"}

labels(items) == [i \in 1..Len(items) |-> items[i].label]

\* C5: for every completion request, the returned list has at most max_results
\* items, for the config in force for that request, and no two items have the same
\* label.
C5_AtMostMaxResultsDistinctLabels ==
    Replied =>
        /\ Len(response.items) <= config.max_results
        /\ \A i, j \in 1..Len(response.items) :
              i # j => response.items[i].label # response.items[j].label

\* a request over two directories that returned exactly max_results items
C5_Witness ==
    /\ response.stage = "done"
    /\ Len(response.fed) = 2
    /\ \A i \in 1..2 : is_some(response.fed[i].listed)
    /\ Len(response.items) = config.max_results
    /\ Len(response.items) >= 1

\* the reference pipeline: each directory's listing filtered and sorted on its own,
\* the lists concatenated in resolver order
RECURSIVE per_directory(_, _, _, _)
per_directory(fed, i, segment_prefix, cfg) ==
    IF i > Len(fed) THEN <<>>
    ELSE (IF is_some(fed[i].listed)
          THEN filter_entries(unwrap(fed[i].listed), segment_prefix, cfg)
          ELSE <<>>)
         \o per_directory(fed, i + 1, segment_prefix, cfg)

\* ... deduplicated by name keeping the first occurrence, and only then truncated
reference_pipeline(fed, segment_prefix, cfg) ==
    SubSeq(dedup_from(per_directory(fed, 1, segment_prefix, cfg), 1, {}), 1,
           Min(Len(dedup_from(per_directory(fed, 1, segment_prefix, cfg), 1, {})),
               cfg.max_results))

\* C6: the result of a completion request equals the reference pipeline (filter and
\* sort per directory, concatenate in resolver order, deduplicate by name keeping the
\* first occurrence, then truncate to max_results), so it holds min(max_results,
\* number of distinct surviving names) items and the surviving entries of an earlier
\* directory precede those of a later one.
C6_EqualsReferencePipeline ==
    (Replied /\ response.stage = "done") =>
        LET ref == reference_pipeline(response.fed,
                                      unwrap(response.query).segment_prefix, config) IN
        /\ Len(response.items) = Len(ref)
        /\ \A i \in 1..Len(ref) :
              /\ response.items[i].label = ref[i].name
              /\ response.items[i].kind = (IF ref[i].is_dir THEN "FOLDER" ELSE "FILE")

\* C7: every directory listing that feeds a completion request, freshly read or
\* served from the cache, holds at most 2 x max_results raw entries for the
\* max_results of the config in force for that request, also after an update that
\* lowers max_results while a cached listing is within its TTL.
C7_ListingsWithinTwiceMaxResults ==
    Replied =>
        \A i \in 1..Len(response.fed) :
            is_some(response.fed[i].listed) =>
                Len(unwrap(response.fed[i].listed)) <= 2 * config.max_results

\* C8: after start-up and after every applied configuration update, the TTL and
\* the capacity of the cache are cache_ttl_ms and cache_max_dirs of the current
\* config, so no completion request runs with a config whose limits differ from the
\* cache's.
C8_CacheLimitsFollowConfig ==
    /\ cache.ttl = config.cache_ttl_ms
    /\ cache.max_entries = config.cache_max_dirs

\* an update that carried a mistyped field was applied, and a later one set the
\* limits that are in force
C8_Witness ==
    /\ config_warned
    /\ config.cache_ttl_ms = 0
    /\ config.cache_max_dirs = 1
    /\ cache.ttl = 0
    /\ cache.max_entries = 1

\* the text of the document a completion request was about, the offset of the
\* content of the string at its cursor and the content before the cursor
RequestText == documents[unwrap(response.request).uri].text
RequestStringStart ==
    unwrap(line_start_offset(RequestText, unwrap(response.request).cursor.line))
        + unwrap(response.info).string_start_byte
RequestContent == unwrap(response.info).content_before_cursor

\* the call-context heuristic succeeds for the string of the request
HeuristicSucceeds == is_path_context(RequestText, RequestStringStart).val

\* the prefix classification ran and found a path-looking prefix
PrefixQueryFound ==
    config.path_prefix_fallback /\ is_some(find_prefix_query(RequestContent, config))

\* C9: with gating Off completion is always allowed; with Strict it is allowed
\* exactly when the call-context heuristic succeeds; with Smart exactly when a
\* prefix-based query was found or the heuristic succeeds. So a string without a
\* path prefix in a call of a callee that is not listed, as print("hello"), gives an
\* empty result under the default Smart gating.
C9_GatingByMode ==
    ReachedGate =>
        LET allowed == response.stage # "gated" IN
        /\ config.context_gating = "Off" => allowed
        /\ config.context_gating = "Strict" => (allowed <=> HeuristicSucceeds)
        /\ config.context_gating = "Smart" =>
              (allowed <=> (PrefixQueryFound \/ HeuristicSucceeds))
        /\ (config.context_gating = "Smart" /\ ~PrefixQueryFound /\ ~HeuristicSucceeds)
              => response.items = <<>>
        /\ (config = Config_default /\ RequestText = PrintHello) => response.items = <<>>

\* print("hello") with the cursor before the closing quote, default config
C9_Witness ==
    /\ ReachedGate
    /\ config = Config_default
    /\ RequestText = PrintHello
    /\ RequestContent = <<"h", "e", "l", "l", "o">>
    /\ response.stage = "gated"
    /\ response.items = <<>>

\* C10: when path_prefix_fallback is disabled and the string content before the
\* cursor holds no path-looking prefix, the completion request returns no
\* completions, in every gating mode.
C10_NoCompletionsWithoutPrefix ==
    (ReachedGate /\ ~config.path_prefix_fallback
        /\ is_none(find_prefix_query(RequestContent, config)))
        => response.items = <<>>

----------------------------------------------------------------------------
(* The pure functions of completion.rs applied to bounded inputs *)

\* the server and the cache at rest while a pure function is applied
PureIdle ==
    /\ ServerIdle
    /\ cache = DirCache_new(Config_default.cache_ttl_ms, Config_default.cache_max_dirs)
    /\ now = 0
    /\ lastOp = NoOp
    /\ prevOp = Summary(NoOp)
    /\ recency = <<>>

\* the record of one application of the function named fn
Applied(fn, input, output) == [fn |-> fn, input |-> input, output |-> output]

restVars == <<cache, now, cacheVars, serverVars>>

\* every text over chars of at most n bytes
TextsOver(chars, n) == UNION { [1..k -> chars] : k \in 0..n }

----------------------------------------------------------------------------
(* The path query classifier on every content of at most MaxContentLen bytes *)

MaxContentLen == 3

ClassifierChars == {"~", "/", "\\", ".", "a", " ", ":"}

\* longer contents: a prefix after whitespace, after a no-break space, after another
\* prefix, a drive prefix of a letter that is not ASCII, a prefix after a letter
ClassifierExamples ==
    { <<" ", "a", ":", "/">>,
      <<"a", ":", "\\", "x">>,
      <<"U+00E9", CONT, ":", "/">>,
      <<"U+00A0", CONT, ".", "/", "a">>,
      <<"/", "a", " ", "~", "/", "b">>,
      <<"x", " ", ".", ".", "/", "a">>,
      <<"a", ".", ".", "/", "b">>,
      <<"\t", "\\", "\\", "h">> }

ClassifierContents == TextsOver(ClassifierChars, MaxContentLen) \cup ClassifierExamples

ClassifierConfigs ==
    {Config_default,
     [Config_default EXCEPT !.windows_enable_unc = FALSE,
                            !.windows_enable_drive_prefix = FALSE]}

\* the content before the cursor and the configuration in force are drawn first
ClassifierInit ==
    /\ PureIdle
    /\ \E content \in ClassifierContents, cfg \in ClassifierConfigs :
           probe = Applied("classifier input", content, None) @@ [cfg |-> cfg]

FindPrefixQuery ==
    /\ probe.fn = "classifier input"
    /\ probe' = Applied("find_prefix_query", probe.input,
                        find_prefix_query(probe.input, probe.cfg))
                   @@ [cfg |-> probe.cfg]
    /\ UNCHANGED restVars

BuildRelativeQuery ==
    /\ probe.fn = "classifier input"
    /\ probe' = Applied("build_relative_query", probe.input,
                        Some(build_relative_query(probe.input)))
                   @@ [cfg |-> probe.cfg]
    /\ UNCHANGED restVars

ClassifierNext == FindPrefixQuery \/ BuildRelativeQuery

SpecClassifier == ClassifierInit /\ [][ClassifierNext]_vars

IsSeparator(ch) == ch \in {"/", "\\"}

Classified == probe.fn \in {"find_prefix_query", "build_relative_query"}

\* C11: for every PathQuery produced by find_prefix_query or build_relative_query,
\* dir_part followed by segment_prefix is path_str, segment_prefix holds neither
\* '/' nor '\', and dir_part is empty or ends with a separator.
C11_QuerySplitRoundTrip ==
    Classified =>
        \A i \in 1..Len(probe.output) :
            LET q == probe.output[i] IN
            /\ q.dir_part \o q.segment_prefix = q.path_str
            /\ \A j \in 1..Len(q.segment_prefix) : ~IsSeparator(q.segment_prefix[j])
            /\ (q.dir_part = <<>> \/ IsSeparator(q.dir_part[Len(q.dir_part)]))

\* find_prefix_query has split "./a" into "./" and "a"
C11_Witness ==
    /\ probe.fn = "find_prefix_query"
    /\ probe.input = <<".", "/", "a">>
    /\ is_some(probe.output)
    /\ unwrap(probe.output).dir_part = <<".", "/">>
    /\ unwrap(probe.output).segment_prefix = <<"a">>

\* C12: a query whose text is a bare ~ is classified Home with directory part
\* "~/" and an empty segment prefix.
C12_BareTildeIsHomeDirectory ==
    (probe.fn = "find_prefix_query" /\ probe.input = <<"~">>) =>
        /\ is_some(probe.output)
        /\ unwrap(probe.output).prefix_kind = "Home"
        /\ unwrap(probe.output).dir_part = <<"~", "/">>
        /\ unwrap(probe.output).segment_prefix = <<>>

----------------------------------------------------------------------------
(* The string literal lexer on lines that open one string *)

MaxStringLen == 4

LexerChars == {"{", "}", "\\", "a", "U+00E9", CONT}

\* every lead byte of the text is followed by its continuation byte
WellFormed(s) ==
    \A i \in 1..Len(s) :
        /\ s[i] = "U+00E9" => (i < Len(s) /\ s[i + 1] = CONT)
        /\ s[i] = CONT => (i > 1 /\ s[i - 1] = "U+00E9")

\* "   f"   rf"   x = f'''
LexerOpenings ==
    { <<"\"">>, <<"f", "\"">>, <<"r", "f", "\"">>,
      <<"x", " ", "=", " ", "f", "'", "'", "'">> }

\* f"{value}/data"
FStringExample ==
    <<"f", "\"", "{", "v", "a", "l", "u", "e", "}", "/", "d", "a", "t", "a", "\"">>

\* the line, the byte offset of the content of its string, and whether the string
\* carries the f prefix
\* strings without the f prefix: """"x (triple-quoted, the content begins with a
\* quote), '''a'b (triple-quoted, a lone quote inside), r"a\b (raw), "a"b (closed)
PlainExamples ==
    { [line |-> <<"\"", "\"", "\"", "\"", "x">>, content_start |-> 3, is_fstring |-> FALSE],
      [line |-> <<"'", "'", "'", "a", "'", "b">>, content_start |-> 3, is_fstring |-> FALSE],
      [line |-> <<"r", "\"", "a", "\\", "b">>, content_start |-> 2, is_fstring |-> FALSE],
      [line |-> <<"\"", "a", "\"", "b">>, content_start |-> 1, is_fstring |-> FALSE] }

LexerLines ==
    { [line |-> FStringExample, content_start |-> 2, is_fstring |-> TRUE] }
    \cup PlainExamples
    \cup { [line |-> o \o c, content_start |-> Len(o),
            is_fstring |-> \E k \in 1..Len(o) : o[k] = "f"] :
           o \in LexerOpenings,
           c \in { t \in TextsOver(LexerChars, MaxStringLen) : WellFormed(t) } }

LexerInit ==
    /\ PureIdle
    /\ \E l \in LexerLines :
           \E cursor \in { c \in 0..Len(l.line) : is_char_boundary(l.line, c) } :
               probe = Applied("lexer input", l @@ [cursor |-> cursor], None)

FindStringInfo ==
    /\ probe.fn = "lexer input"
    /\ probe' = Applied("find_string_info", probe.input,
                        find_string_info(probe.input.line, probe.input.cursor))
    /\ UNCHANGED restVars

LexerNext == FindStringInfo

SpecLexer == LexerInit /\ [][LexerNext]_vars

Lexed == probe.fn = "find_string_info"

\* the byte offsets of content at which the scan of a string with this content
\* stands at the top of the loop
RECURSIVE scan_stops(_, _, _)
scan_stops(content, is_raw, i) ==
    IF i >= Len(content) THEN {i}
    ELSE {i} \cup
         scan_stops(content, is_raw,
             IF ~is_raw /\ content[i + 1] = "\\" /\ i + 1 < Len(content)
             THEN i + 1 + len_utf8(content, i + 1)
             ELSE i + len_utf8(content, i))

\* the cursors strictly before the cursor of the probe inside the same content
EarlierCursors ==
    { c \in probe.input.content_start..(probe.input.cursor - 1) :
          is_char_boundary(probe.input.line, c) }

\* C13 (as claimed): when the lexer returns a StringInfo, lexing the same line with
\* the cursor at any strictly earlier position inside the same string's content
\* yields a StringInfo whose content is a prefix of the original content.
C13_EarlierCursorYieldsPrefix ==
    (Lexed /\ is_some(probe.output)) =>
        \A c \in EarlierCursors :
            LET r == find_string_info(probe.input.line, c) IN
            /\ is_some(r)
            /\ starts_with(unwrap(probe.output).content_before_cursor,
                           unwrap(r).content_before_cursor)

\* C13 (amended): when the lexer returns a StringInfo, lexing the same line with the
\* cursor at a strictly earlier position inside the same string's content yields
\* either nothing or a StringInfo whose content is the original content cut at the
\* earlier cursor, a prefix of it; in a string without the f prefix it yields
\* nothing exactly when the earlier cursor stands between a backslash and the
\* scalar value it escapes.
C13_EarlierCursorYieldsPrefixOrNothing ==
    (Lexed /\ is_some(probe.output)) =>
        LET info == unwrap(probe.output)
            start == probe.input.content_start IN
        /\ info.content_before_cursor = slice(probe.input.line, start, probe.input.cursor)
        /\ \A c \in EarlierCursors :
               LET r == find_string_info(probe.input.line, c) IN
               /\ is_some(r) =>
                     /\ unwrap(r).content_before_cursor = slice(probe.input.line, start, c)
                     /\ starts_with(info.content_before_cursor,
                                    unwrap(r).content_before_cursor)
               /\ ~info.is_fstring =>
                     (is_some(r) <=>
                         (c - start) \in scan_stops(info.content_before_cursor,
                                                    info.is_raw, 0))

\* "a\aa lexed at the end of the line: the cursor between \ and a yields nothing,
\* the cursor after the first a yields a
C13_Witness ==
    /\ Lexed
    /\ probe.input.line = <<"\"", "a", "\\", "a", "a">>
    /\ probe.input.cursor = 5
    /\ is_some(probe.output)
    /\ unwrap(probe.output).content_before_cursor = <<"a", "\\", "a", "a">>
    /\ is_none(find_string_info(probe.input.line, 3))
    /\ is_some(find_string_info(probe.input.line, 2))

\* nesting depth of { and } at the end of content, {{ and }} being literal text
RECURSIVE brace_depth(_, _, _)
brace_depth(content, i, depth) ==
    IF i >= Len(content) THEN depth
    ELSE IF content[i + 1] \in {"{", "}"} /\ i + 1 < Len(content)
            /\ content[i + 2] = content[i + 1]
    THEN brace_depth(content, i + 2, depth)
    ELSE IF content[i + 1] = "{" THEN brace_depth(content, i + 1, depth + 1)
    ELSE IF content[i + 1] = "}"
    THEN brace_depth(content, i + 1, IF depth > 0 THEN depth - 1 ELSE 0)
    ELSE brace_depth(content, i + 1, depth)

\* C14: for a cursor inside an f-prefixed string the lexer yields nothing exactly
\* when the content before the cursor leaves an interpolation open (brace nesting
\* depth > 0, {{ and }} being literal text), and a StringInfo otherwise; in
\* f"{value}/data" a cursor inside value yields nothing and a cursor inside data
\* yields a StringInfo.
C14_NothingExactlyInOpenInterpolation ==
    (Lexed /\ probe.input.is_fstring /\ probe.input.cursor >= probe.input.content_start) =>
        /\ is_none(probe.output)
               <=> brace_depth(slice(probe.input.line, probe.input.content_start,
                                     probe.input.cursor), 0, 0) > 0
        /\ (probe.input.line = FStringExample /\ probe.input.cursor \in 3..8)
               => is_none(probe.output)
        /\ (probe.input.line = FStringExample /\ probe.input.cursor \in 10..14)
               => is_some(probe.output)

----------------------------------------------------------------------------
(* The glob matcher on every pattern and text of bounded length *)

MaxPatternLen == 3
MaxGlobTextLen == 3

GlobPatternChars == {"*", "/", "a"}
GlobTextChars == {"/", "a"}

\* the patterns and texts of the unit test glob_match_basic
GlobExamples ==
    { [pattern |-> <<"*", "*", "/", "n", "o", "d", "e", "_", "m", "o", "d", "u", "l",
                     "e", "s", "/", "*", "*">>,
       text |-> <<"/", "p", "r", "o", "j", "/", "n", "o", "d", "e", "_", "m", "o", "d",
                  "u", "l", "e", "s", "/", "p", "k", "g">>],
      [pattern |-> <<"*", "*", "/", ".", "g", "i", "t", "/", "*", "*">>,
       text |-> <<"/", "p", "r", "o", "j", "/", ".", "g", "i", "t", "/", "c", "o", "n",
                  "f", "i", "g">>],
      [pattern |-> <<"*", "*", "/", ".", "v", "e", "n", "v", "/", "*", "*">>,
       text |-> <<"/", "p", "r", "o", "j", "/", "s", "r", "c", "/", "m", "a", "i", "n",
                  ".", "p", "y">>] }

GlobInputs ==
    GlobExamples
    \cup { [pattern |-> p, text |-> t] :
           p \in TextsOver(GlobPatternChars, MaxPatternLen),
           t \in TextsOver(GlobTextChars, MaxGlobTextLen) }

GlobInit ==
    /\ PureIdle
    /\ \E g \in GlobInputs : probe = Applied("glob input", g, FALSE)

GlobMatch ==
    /\ probe.fn = "glob input"
    /\ probe' = Applied("glob_match", probe.input,
                        glob_match(probe.input.pattern, probe.input.text))
    /\ UNCHANGED restVars

GlobNext == GlobMatch

SpecGlob == GlobInit /\ [][GlobNext]_vars

\* the text from byte xi on splits into consecutive pieces, one per token from ti
\* on: a literal byte matches itself, * a run without '/', ** any run
RECURSIVE glob_reference(_, _, _, _)
glob_reference(tokens, text, ti, xi) ==
    IF ti = Len(tokens) THEN xi = Len(text)
    ELSE LET tok == tokens[ti + 1] IN
         CASE tok.kind = "Char" ->
                /\ xi < Len(text)
                /\ text[xi + 1] = tok.c
                /\ glob_reference(tokens, text, ti + 1, xi + 1)
           [] tok.kind = "Star" ->
                \E j \in xi..Len(text) :
                    /\ \A k \in (xi + 1)..j : text[k] # "/"
                    /\ glob_reference(tokens, text, ti + 1, j)
           [] tok.kind = "GlobStar" ->
                \E j \in xi..Len(text) : glob_reference(tokens, text, ti + 1, j)

\* C15: glob_match(pattern, text) is true exactly when the whole text splits into
\* consecutive pieces, one per pattern token, a literal byte matching itself, *
\* any possibly empty run of bytes without '/' and ** any possibly empty run of
\* bytes; the memoized matcher answers as this unmemoized reference does.
C15_GlobMatchEqualsReference ==
    probe.fn = "glob_match" =>
        (probe.output
            <=> glob_reference(tokenize_glob(probe.input.pattern), probe.input.text, 0, 0))

----------------------------------------------------------------------------
(* filter_entries on every listing of at most MaxListed entries *)

MaxListed == 3

FilterDirs == { <<"/", "p", "/", "s">>, <<"/", "p", "/", ".", "g", "i", "t">> }

FilterPool ==
    { DirEntryInfo(<<"a">>, TRUE), DirEntryInfo(<<"a">>, FALSE),
      DirEntryInfo(<<"b">>, TRUE), DirEntryInfo(<<"b">>, FALSE),
      DirEntryInfo(<<"a", "b">>, FALSE), DirEntryInfo(<<".", "a">>, FALSE) }

FilterPrefixes == { <<>>, <<"a">> }

\* /p/*/b
UserIgnoreGlobs == << <<"/", "p", "/", "*", "/", "b">> >>

FilterConfigs ==
    { [Config_default EXCEPT !.show_hidden = h, !.include_files = k[1],
                             !.include_directories = k[2], !.ignore_globs = g] :
      h \in BOOLEAN, k \in { <<TRUE, TRUE>>, <<TRUE, FALSE>>, <<FALSE, TRUE>> },
      g \in { DefaultIgnoreGlobs, UserIgnoreGlobs } }

FilterInit ==
    /\ PureIdle
    /\ \E dir \in FilterDirs, items \in TextsOver(FilterPool, MaxListed),
          segment_prefix \in FilterPrefixes, cfg \in FilterConfigs :
           probe = Applied("filter input",
                           [entries |-> with_paths(dir, items),
                            segment_prefix |-> segment_prefix, cfg |-> cfg], <<>>)

FilterEntries ==
    /\ probe.fn = "filter input"
    /\ probe' = Applied("filter_entries", probe.input,
                        filter_entries(probe.input.entries, probe.input.segment_prefix,
                                       probe.input.cfg))
    /\ UNCHANGED restVars

FilterNext == FilterEntries

SpecFilter == FilterInit /\ [][FilterNext]_vars

\* the condition under which an entry is to be kept, a path matching a glob when
\* it splits into pieces as the tokens of the glob ask
ShouldKeep(e, segment_prefix, cfg) ==
    /\ cfg.show_hidden \/ ~starts_with(e.name, <<".">>)
    /\ IF e.is_dir THEN cfg.include_directories ELSE cfg.include_files
    /\ starts_with(e.name, segment_prefix)
    /\ \A k \in 1..Len(cfg.ignore_globs) :
           ~glob_reference(tokenize_glob(cfg.ignore_globs[k]),
                           normalize_for_match(e.path), 0, 0)

\* how many elements of the list satisfy the test
Count(list, Test(_)) == Cardinality({ i \in 1..Len(list) : Test(list[i]) })

\* C16: filter_entries keeps an entry if and only if (show_hidden or its name does
\* not start with '.') and its kind is included by include_files and
\* include_directories and its name starts with segment_prefix and its normalized
\* path matches no ignore glob; the output lists every directory before every file
\* and each of the two groups in ascending order of name.
C16_FilterKeepsAndOrders ==
    probe.fn = "filter_entries" =>
        LET given == probe.input.entries
            out == probe.output IN
        /\ \A name \in { given[i].name : i \in 1..Len(given) }, is_dir \in BOOLEAN :
               Count(out, LAMBDA o : o.name = name /\ o.is_dir = is_dir)
                   = Count(given, LAMBDA e :
                         /\ e.name = name
                         /\ e.is_dir = is_dir
                         /\ ShouldKeep(e, probe.input.segment_prefix, probe.input.cfg))
        /\ Len(out) <= Len(given)
        /\ \A i, j \in 1..Len(out) :
               i < j =>
                   /\ ~(out[j].is_dir /\ ~out[i].is_dir)
                   /\ out[i].is_dir = out[j].is_dir => ~str_lt(out[j].name, out[i].name, 1)

----------------------------------------------------------------------------
(* The edit range of the completion items *)

RangeSettings ==
    { JObj(<<>>),
      JObj([base_dir |-> JStr("both")]) }

\* open("./fo   open("<U+1F600>/../fo   open("x ~
RangeBuffers ==
    { <<"o", "p", "e", "n", "(", "\"", ".", "/", "f", "o">>,
      <<"o", "p", "e", "n", "(", "\"", "U+1F600", CONT, CONT, CONT, "/", ".", ".", "/",
        "f", "o">>,
      <<"o", "p", "e", "n", "(", "\"", "x", " ", "~">> }

RangeInit == ServerStart(None, Some(RootUri))

RangeNext ==
    \/ \E text \in RangeBuffers, language_id \in Languages :
           DidOpen(DocUri, text, language_id)
    \/ \E settings \in RangeSettings : DidChangeConfiguration(settings)
    \/ \E cursor \in Cursors(DocUri, {0, 1, 2}) : Completion(DocUri, cursor)
    \/ ServerTick

SpecRange == RangeInit /\ [][RangeNext]_vars

\* C17: for every completion result the edit range lies on the line of the cursor,
\* ends at the cursor column of the request, starts at the UTF-16 offset of the
\* start of the string content plus the UTF-16 length of the content up to the
\* segment start, and covers exactly the segment prefix of the query: end column
\* minus start column is the UTF-16 length of segment_prefix, for queries found by
\* prefix and relative fallback queries alike.
C17_EditRangeCoversSegmentPrefix ==
    Replied =>
        \A i \in 1..Len(response.items) :
            LET range == response.items[i].range
                cursor == unwrap(response.request).cursor
                info == unwrap(response.info)
                query == unwrap(response.query) IN
            /\ range.start.line = cursor.line
            /\ range.end.line = cursor.line
            /\ range.end.character = cursor.character
            /\ range.start.character
                 = info.string_start_utf16
                     + utf16_len(slice(RequestContent, 0,
                                       segment_start_offset(RequestContent)))
            /\ range.end.character - range.start.character
                 = utf16_len(query.segment_prefix)

----------------------------------------------------------------------------
(* The server under a sequence of configuration loads *)

\* {}   {"show_hidden": true, "max_results": 1}   {"show_hidden": "yes"}
\* {"max_results": "many"}   {"colour": "red"}
ConfigSettings ==
    { JObj(<<>>),
      JObj([show_hidden |-> JBool(TRUE), max_results |-> JNum(1)]),
      JObj([show_hidden |-> JStr("yes")]),
      JObj([max_results |-> JStr("many")]),
      JObj([colour |-> JStr("red")]) }

ConfigInit ==
    \E options \in {None} \cup { Some(v) : v \in ConfigSettings } :
        ServerStart(options, Some(RootUri))

ConfigNext ==
    \/ \E settings \in ConfigSettings : DidChangeConfiguration(settings)
    \/ Initialized
    \/ \E id \in 1..MaxRequestId :
         \E result \in {None} \cup { Some(JArr(<<v>>)) : v \in ConfigSettings } :
             HandleResponse(id, result)
    \/ \E text \in ServerBuffers, language_id \in Languages :
           DidOpen(DocUri, text, language_id)
    \/ \E cursor \in Cursors(DocUri, {0}) : Completion(DocUri, cursor)
    \/ ServerTick

SpecConfig == ConfigInit /\ [][ConfigNext]_vars

\* the step is a configuration load of these settings: a didChangeConfiguration
\* notification or the answer to the pending workspace/configuration request
Loads(settings) ==
    \/ DidChangeConfiguration(settings)
    \/ \E id \in 1..MaxRequestId :
           /\ pending_config_request = Some(id)
           /\ HandleResponse(id, Some(JArr(<<settings>>)))

\* the fields of Config the settings give a value of the wrong JSON type
MistypedFields(settings) ==
    { f \in DOMAIN settings.v :
          \/ f \in BoolKeys /\ settings.v[f].t # "bool"
          \/ f \in NumberKeys /\ settings.v[f].t # "number"
          \/ f \in DOMAIN EnumKeys /\ settings.v[f].t # "string"
          \/ f = "ignore_globs" /\ settings.v[f].t # "array" }

\* the keys of the settings that name no field of Config
UnknownKeys(settings) ==
    DOMAIN settings.v \ (BoolKeys \cup NumberKeys \cup DOMAIN EnumKeys \cup {"ignore_globs"})

\* C18: in any sequence of configuration loads, a field given a wrongly-typed value
\* in a load keeps the value it had before that load, not merely the built-in
\* default, and the load never aborts the process.
C18_MistypedFieldKeepsPreviousValue ==
    [][\A settings \in ConfigSettings :
           Loads(settings) =>
               /\ \A f \in MistypedFields(settings) : config'[f] = config[f]
               /\ alive']_vars

\* C19: over any sequence of configuration loads, a load that holds an unknown
\* setting key or a mistyped value emits a warning if none was emitted before, and
\* at most one warning is emitted during the lifetime of the process.
C19_OneWarningForUnknownOrMistyped ==
    /\ [](warning_lines <= 1)
    /\ [][\A settings \in ConfigSettings :
              (Loads(settings)
                  /\ (UnknownKeys(settings) # {} \/ MistypedFields(settings) # {})
                  /\ warning_lines = 0)
                  => warning_lines' = 1]_vars

----------------------------------------------------------------------------
(* The lookback windows of the heuristic on buffers with a multi-byte character *)

\* a comment line of n bytes that starts with a two-byte character
CommentLine(n) == <<"U+00E9", CONT>> \o [i \in 1..(n - 2) |-> "#"]

\* the comment line, then foo("fo : the string starts at byte n + 5
WindowBuffer(n) == CommentLine(n) \o <<"\n", "f", "o", "o", "(", "\"", "f", "o">>

\* the 120-byte or the 300-byte window starts at the lead byte of the character,
\* or inside it
WindowBuffers ==
    { WindowBuffer(n) :
        n \in { JoinLookback - 5, JoinLookback - 4, CallLookback - 5, CallLookback - 4 } }
    \cup { PrintHello }

\* the cursors at the end and two columns before the end of the last line
LastLineCursors(uri) ==
    { c \in Cursors(uri, {0, 2}) : \A d \in Cursors(uri, {0, 2}) : d.line <= c.line }

WindowInit ==
    \E options \in {None} \cup { Some(v) : v \in GateSettings } :
        ServerStart(options, Some(RootUri))

WindowNext ==
    \/ \E text \in WindowBuffers, language_id \in Languages :
           DidOpen(DocUri, text, language_id)
    \/ \E settings \in GateSettings : DidChangeConfiguration(settings)
    \/ \E cursor \in LastLineCursors(DocUri) : Completion(DocUri, cursor)
    \/ ServerTick

SpecWindow == WindowInit /\ [][WindowNext]_vars

\* C20: no input makes the core abort: for every buffer, buffers with multi-byte
\* characters included, and every string start offset the lexer can produce, the
\* 300-byte and the 120-byte lookback window of the call-context heuristic are
\* taken without failure, the heuristic answers path-shaped or not path-shaped,
\* and the request still yields a (possibly empty) result.
C20_NoInputAborts ==
    /\ alive
    /\ Replied => response.stage # "panic"
    /\ (Replied /\ is_some(response.info)) =>
           /\ ~window_before(RequestText, RequestStringStart, CallLookback).panic
           /\ ~window_before(RequestText, RequestStringStart, JoinLookback).panic
           /\ ~is_path_context(RequestText, RequestStringStart).panic

----------------------------------------------------------------------------
(* A directory that cannot be read, among the directories of one request *)

\* the step is a completion request that got as far as listing directories
ListingStep == response'.kind = "result" /\ response'.stage = "done" /\ now' = now

\* the directories of a listing that std::fs::read_dir could read
RECURSIVE readable_dirs(_, _)
readable_dirs(fed, i) ==
    IF i > Len(fed) THEN <<>>
    ELSE (IF is_some(read_dir(fed[i].dir)) THEN <<fed[i].dir>> ELSE <<>>)
         \o readable_dirs(fed, i + 1)

\* C21: if reading one of the resolved directories fails, the request still returns
\* the entries of the other resolved directories (its items and the cache it leaves
\* are those of the same request over the other directories only), the failing
\* directory contributes zero entries, and no cache entry is inserted for it.
C21_FailedReadLeavesOthers ==
    [][ListingStep =>
          LET fed == response'.fed
              failing == { i \in 1..Len(fed) : is_none(read_dir(fed[i].dir)) }
              others == list_all(readable_dirs(fed, 1), 1, cache, config, now) IN
          /\ \A i \in failing :
                /\ is_none(fed[i].listed)
                /\ ~holds(cache'.entries, fed[i].dir)
          /\ failing # {} =>
                /\ cache' = others.cache
                /\ response'.items =
                     completion_from_entries(others, config,
                                             unwrap(response'.request).cursor,
                                             unwrap(response'.info),
                                             unwrap(response'.query),
                                             response'.has_prefix).items]_vars

\* a request over two directories: the first was read and gave an item, the second
\* could not be read
C21_Witness ==
    /\ Replied
    /\ response.stage = "done"
    /\ Len(response.fed) = 2
    /\ response.fed[1].from = "read"
    /\ response.fed[2].from = "error"
    /\ is_none(read_dir(response.fed[2].dir))
    /\ response.items # <<>>
    /\ holds(cache.entries, response.fed[1].dir)

----------------------------------------------------------------------------
(* update_limits on a cache that holds entries *)

\* C23: update_limits(ttl, max_entries) removes entries only from the
\* least-recently-used end and only until the size is <= the new max_entries; the
\* entries that remain keep their order and their insertion timestamps, so an entry
\* already older than a newly shortened TTL stays in the cache instead of being
\* removed by update_limits.
C23_UpdateLimitsTrimsTailOnly ==
    [][IsCall("update_limits") =>
          LET kept == Min(Len(cache.entries), cache'.max_entries) IN
          /\ cache'.entries = SubSeq(cache.entries, 1, kept)
          /\ \A i \in 1..kept, j \in (kept + 1)..Len(cache.entries) :
                rank(recency, cache.entries[i].dir) < rank(recency, cache.entries[j].dir)
          /\ \A dir \in CacheDirs :
                (holds(cache.entries, dir) /\ position(cache.entries, dir) <= kept
                    /\ expired(cache', dir, now))
                    => holds(cache'.entries, dir)
      ]_vars

\* update_limits has just removed an entry, and an entry older than the TTL it set
\* is still in the cache
C23_Witness ==
    /\ lastOp.op = "update_limits"
    /\ lastOp.note = "overflow"
    /\ cache.entries # <<>>
    /\ Len(cache.entries) = cache.max_entries
    /\ \E dir \in CacheDirs : expired(cache, dir, now)

----------------------------------------------------------------------------
(* Where find_prefix_query starts the query *)

\* the text starts as a path does: ../, ./, /, ~, \\ when UNC is enabled, an ASCII
\* letter with : and \ or / when drive prefixes are enabled
PathStart(t, cfg) ==
    \/ \E pre \in { <<".", ".", "/">>, <<".", "/">>, <<"/">>, <<"~">> } :
          Len(t) >= Len(pre) /\ \A k \in 1..Len(pre) : t[k] = pre[k]
    \/ cfg.windows_enable_unc /\ Len(t) >= 2 /\ t[1] = "\\" /\ t[2] = "\\"
    \/ /\ cfg.windows_enable_drive_prefix
       /\ Len(t) >= 3
       /\ t[1] \in elements(Lower) \cup elements(Upper)
       /\ t[2] = ":"
       /\ t[3] \in {"\\", "/"}

\* the positions a query may start at: the start of the text or a position that
\* follows a whitespace character, where the text starts as a path does
QueryStarts(content, cfg) ==
    { p \in 0..(Len(content) - 1) :
        /\ content[p + 1] # CONT
        /\ \/ p = 0
           \/ \E q \in 0..(p - 1) :
                 /\ content[q + 1] # CONT
                 /\ \A k \in (q + 1)..(p - 1) : content[k + 1] = CONT
                 /\ is_whitespace(content[q + 1])
        /\ PathStart(SubSeq(content, p + 1, Len(content)), cfg) }

\* C24: find_prefix_query returns a query that starts at the greatest position p
\* such that p is the start of the text or the character before p is whitespace and
\* the text from p starts with ../, ./, /, ~, \\ (only when UNC is enabled) or ASCII
\* letter + : + (\ or /) (only when drive prefixes are enabled); it returns nothing
\* when no such position exists; and a returned query is tagged Relative only when
\* its text starts with ./ or ../.
C24_QueryStartsAtLastPrefix ==
    probe.fn = "find_prefix_query" =>
        LET starts == QueryStarts(probe.input, probe.cfg) IN
        /\ starts = {} <=> is_none(probe.output)
        /\ starts # {} =>
              LET p == CHOOSE x \in starts : \A y \in starts : y <= x
                  q == unwrap(probe.output) IN
              /\ q.path_str = SubSeq(probe.input, p + 1, Len(probe.input))
              /\ q.prefix_kind = "Relative" =>
                    \/ starts_with(q.path_str, <<".", "/">>)
                    \/ starts_with(q.path_str, <<".", ".", "/">>)

\* "/a ~/b" gave the query ~/b, the later of its two prefixes
C24_Witness ==
    /\ probe.fn = "find_prefix_query"
    /\ probe.input = <<"/", "a", " ", "~", "/", "b">>
    /\ is_some(probe.output)
    /\ unwrap(probe.output).path_str = <<"~", "/", "b">>
    /\ unwrap(probe.output).prefix_kind = "Home"

----------------------------------------------------------------------------
(* The directory resolver on relative queries *)

ResolverContents ==
    { <<>>, <<".", "/">>, <<".", ".", "/">>, <<"s", "/">>,
      <<".", ".", "/", "s", "/", "f">>, <<".", ".", "/", ".", ".", "/">> }

ResolverFileDirs == { None, Some(DirSrc), Some(DirRoot), Some(DirRoot \o <<"/">>) }

ResolverRootDirs == { None, Some(DirRoot), Some(DirSrc) }

ResolverConfigs ==
    { [Config_default EXCEPT !.base_dir = b, !.workspace_root_strategy = w] :
        b \in {"FileDir", "WorkspaceRoot", "Both"}, w \in {"LspRootUri", "Disabled"} }

\* the query, the document directory, the workspace root and the configuration are
\* drawn first
ResolveInit ==
    /\ PureIdle
    /\ \E content \in ResolverContents, file_dir \in ResolverFileDirs,
          root_dir \in ResolverRootDirs, cfg \in ResolverConfigs :
           probe = Applied("resolver input",
                           [query |-> build_relative_query(content),
                            file_dir |-> file_dir, root_dir |-> root_dir, cfg |-> cfg],
                           None)

ResolveListDirs ==
    /\ probe.fn = "resolver input"
    /\ probe' = Applied("resolve_list_dirs", probe.input,
                        resolve_list_dirs(probe.input.query, probe.input.file_dir,
                                          probe.input.root_dir, probe.input.cfg))
    /\ UNCHANGED restVars

SpecResolve == ResolveInit /\ [][ResolveListDirs]_vars

\* the resolved document directory, when the document directory is known
FromDocument(in) ==
    IF is_some(in.file_dir)
    THEN << apply_relative_dir(unwrap(in.file_dir), in.query.dir_part) >>
    ELSE <<>>

\* the resolved workspace root, when the root is known and the strategy uses it
FromWorkspace(in) ==
    IF is_some(in.root_dir) /\ in.cfg.workspace_root_strategy # "Disabled"
    THEN << apply_relative_dir(unwrap(in.root_dir), in.query.dir_part) >>
    ELSE <<>>

\* C25: for a Relative query, resolve_list_dirs returns: under FileDir, the
\* resolved document directory when it is known; under WorkspaceRoot, the resolved
\* workspace root when it is known and workspace_root_strategy is not Disabled;
\* under Both, the document-directory result first followed by the workspace-root
\* result unless the two are equal. The list never contains duplicates, has at most
\* two elements, and an unavailable base only omits its element.
C25_RelativeDirsByStrategy ==
    (probe.fn = "resolve_list_dirs" /\ probe.input.query.prefix_kind = "Relative") =>
        LET in == probe.input
            out == probe.output
            doc == FromDocument(in)
            ws == FromWorkspace(in) IN
        /\ in.cfg.base_dir = "FileDir" => out = doc
        /\ in.cfg.base_dir = "WorkspaceRoot" => out = ws
        /\ in.cfg.base_dir = "Both" =>
              out = doc \o (IF doc # <<>> /\ ws # <<>> /\ components(doc[1]) = components(ws[1])
                            THEN <<>> ELSE ws)
        /\ Len(out) <= 2
        /\ \A i, j \in 1..Len(out) : i # j => components(out[i]) # components(out[j])

\* under Both, "../../" from /p/s and from /p is the root directory both times, and
\* it is listed once
C25_Witness ==
    /\ probe.fn = "resolve_list_dirs"
    /\ probe.input.cfg.base_dir = "Both"
    /\ probe.input.cfg.workspace_root_strategy = "LspRootUri"
    /\ probe.input.file_dir = Some(DirSrc)
    /\ probe.input.root_dir = Some(DirRoot)
    /\ probe.input.query.dir_part = <<".", ".", "/", ".", ".", "/">>
    /\ probe.output = << <<"/">> >>

----------------------------------------------------------------------------
(* The call-context heuristic on the text before the opening quote of a string *)

Open == <<"o", "p", "e", "n">>
PathName == <<"P", "a", "t", "h">>
ReadCsv == <<"r", "e", "a", "d", "_", "c", "s", "v">>
PathArg == <<"p", "a", "t", "h">>
FileArg == <<"f", "i", "l", "e">>

\* what precedes the callee on the line
ContextLeads == { <<>>, <<"x", " ", "=", " ">> }

\* the callees: listed ones, bare and qualified, and others
ContextCallees ==
    { Open, PathName, ReadCsv, <<"p", "d", ".">> \o ReadCsv,
      <<"i", "o", ".">> \o Open, <<"p", "r", "i", "n", "t">>,
      <<"l", "o", "a", "d">>, <<"r", "e", "o", "p", "e", "n">> }

\* the text between the open parenthesis of the call and the opening quote of the
\* string, with what the string is in the call: the first positional argument or
\* not, and the name it is passed under
ContextArgs ==
    { [text |-> <<>>, first |-> TRUE, named |-> None],
      [text |-> <<" ">>, first |-> TRUE, named |-> None],
      [text |-> <<"r">>, first |-> TRUE, named |-> None],
      [text |-> <<"f">>, first |-> TRUE, named |-> None],
      [text |-> PathArg \o <<"=">>, first |-> FALSE, named |-> Some(PathArg)],
      [text |-> FileArg \o <<" ", "=", " ">>, first |-> FALSE, named |-> Some(FileArg)],
      [text |-> <<"m", "o", "d", "e", "=">>, first |-> FALSE,
       named |-> Some(<<"m", "o", "d", "e">>)],
      [text |-> <<"a", ",", " ">>, first |-> FALSE, named |-> None],
      [text |-> <<"a", ",", " ">> \o PathArg \o <<"=">>, first |-> FALSE,
       named |-> Some(PathArg)],
      [text |-> <<"g", "(", "a", ")", ",", " ">>, first |-> FALSE, named |-> None],
      [text |-> PathName \o <<"(", "a", ")", "/", "b", ",", " ">>, first |-> FALSE,
       named |-> None],
      [text |-> PathName \o <<"(", "a", ")", " ", "/", " ">>, first |-> TRUE,
       named |-> None] }

\* the strings in a call: the text up to the opening quote, the callee and the
\* argument the string is
ContextCalls ==
    { [text |-> lead \o callee \o <<"(">> \o arg.text,
       call |-> Some([callee |-> callee, arg |-> arg])] :
         lead \in ContextLeads, callee \in ContextCallees, arg \in ContextArgs }

\* the strings outside of any call
ContextPlain ==
    { [text |-> t, call |-> None] :
        t \in { <<>>, <<"x", " ", "=", " ">>,
                <<"p", " ", "=", " ">> \o PathName \o <<"(", "a", ")", " ", "/", " ">>,
                <<"p", " ", "=", " ">> \o PathName \o <<"(", "a", ")", " ", "+", " ">>,
                <<"a", " ", "/", " ", "b", " ", "+", " ">> } }

\* the text before the opening quote is drawn first; the string starts at its end
ContextInit ==
    /\ PureIdle
    /\ \E in \in ContextCalls \cup ContextPlain :
           probe = Applied("context input", in, None)

DetectCallContext ==
    /\ probe.fn = "context input"
    /\ probe' = Applied("detect_call_context", probe.input,
                        detect_call_context(probe.input.text, Len(probe.input.text)))
    /\ UNCHANGED restVars

IsPathContext ==
    /\ probe.fn = "context input"
    /\ probe' = Applied("is_path_context", probe.input,
                        is_path_context(probe.input.text, Len(probe.input.text)))
    /\ UNCHANGED restVars

SpecContext == ContextInit /\ [][DetectCallContext \/ IsPathContext]_vars

\* the last dot-separated segment of a callee
LastSegment(callee) ==
    LET dots == { i \in 1..Len(callee) : callee[i] = "." } IN
    IF dots = {} THEN callee
    ELSE SubSeq(callee, (CHOOSE i \in dots : \A j \in dots : j <= i) + 1, Len(callee))

ListedCallees ==
    { Open, PathName, ReadCsv,
      <<"r", "e", "a", "d", "_", "p", "a", "r", "q", "u", "e", "t">>,
      <<"r", "e", "a", "d", "_", "j", "s", "o", "n">>,
      <<"r", "e", "a", "d", "_", "e", "x", "c", "e", "l">>,
      <<"r", "e", "a", "d", "_", "t", "a", "b", "l", "e">> }

ListedArgNames ==
    { PathArg, <<"f", "i", "l", "e", "p", "a", "t", "h">>,
      <<"f", "i", "l", "e", "n", "a", "m", "e">>, FileArg,
      <<"f", "n", "a", "m", "e">> }

\* Path( occurs in the last JoinLookback bytes of t and a / occurs after it
JoinBefore(t) ==
    LET from == Max(Len(t) - JoinLookback, 0) IN
    \E i \in (from + 1)..(Len(t) - 4) :
        /\ SubSeq(t, i, i + 4) = PathName \o <<"(">>
        /\ \E j \in (i + 5)..Len(t) : t[j] = "/"

\* C26: is_path_context holds for a string that directly follows the opening
\* parenthesis of a call whose base name is open, Path or one of the read_*
\* functions, and for a string passed as a named argument called path, filepath,
\* filename, file or fname to any call; it does not hold for the first positional
\* argument of a call to any other callee when no Path( followed by / occurs in the
\* preceding 120 bytes.
C26_PathContextByCallShape ==
    (probe.fn = "is_path_context" /\ is_some(probe.input.call)) =>
        LET call == unwrap(probe.input.call)
            listed == LastSegment(call.callee) \in ListedCallees IN
        /\ ~probe.output.panic
        /\ (call.arg.text = <<>> /\ listed) => probe.output.val
        /\ (is_some(call.arg.named) /\ unwrap(call.arg.named) \in ListedArgNames)
              => probe.output.val
        /\ (call.arg.first /\ ~listed /\ ~JoinBefore(probe.input.text))
              => ~probe.output.val

\* C27: when the text between the open parenthesis of the enclosing call and the
\* opening quote of the string holds neither a comma nor an =, the string is
\* treated as the first positional argument (arg_is_first is true and there is no
\* named argument), for every such text, empty or not.
C27_NoCommaNoEqualsIsFirstPositional ==
    (probe.fn = "detect_call_context" /\ is_some(probe.input.call)) =>
        LET arg_text == unwrap(probe.input.call).arg.text IN
        (\A i \in 1..Len(arg_text) : arg_text[i] \notin {",", "="}) =>
            /\ ~probe.output.panic
            /\ is_some(probe.output.val)
            /\ unwrap(probe.output.val).arg_is_first
            /\ is_none(unwrap(probe.output.val).named_arg)

\* C28: whenever the 120 bytes before the opening quote of the string contain
\* Path( followed later by a /, the position is path-shaped, whatever the
\* call-context scan found, also for a non-first, unnamed argument of a call.
C28_JoinCheckIsIndependent ==
    (probe.fn = "is_path_context" /\ JoinBefore(probe.input.text)) =>
        /\ ~probe.output.panic
        /\ probe.output.val

----------------------------------------------------------------------------
(* The cursor inside the content of a string without the f prefix *)

\* the delimiter that opened the string of the probe: its quote, once or three times
OpeningDelimiter ==
    LET line == probe.input.line
        start == probe.input.content_start IN
    IF start >= 3 /\ line[start - 2] = line[start] /\ line[start - 1] = line[start]
    THEN <<line[start], line[start], line[start]>>
    ELSE <<line[start]>>

\* the byte offset of the first closing delimiter found from the content start on,
\* the end of the line when the string is not closed
FirstClose ==
    LET line == probe.input.line
        at == { k \in probe.input.content_start..(Len(line) - 1) :
                  starts_with(slice_from(line, k), OpeningDelimiter) } IN
    IF at = {} THEN Len(line) ELSE CHOOSE k \in at : \A j \in at : k <= j

\* C29: for every cursor inside the content of an open string without the f prefix
\* (at or after start_byte + delim_len and not after the first closing delimiter
\* found from the content start), find_string_info returns a StringInfo whose
\* content is exactly the text from the content start to the cursor, also for a
\* cursor that immediately follows a backslash in a non-raw string and in a
\* triple-quoted string whose content begins with a quote character.
C29_CursorInContentYieldsContent ==
    (Lexed /\ ~probe.input.is_fstring
        /\ probe.input.cursor >= probe.input.content_start
        /\ probe.input.cursor <= FirstClose) =>
        /\ is_some(probe.output)
        /\ unwrap(probe.output).content_before_cursor
              = slice(probe.input.line, probe.input.content_start, probe.input.cursor)

----------------------------------------------------------------------------
(* The message loop: requests, responses and the initialized notification *)

\* a response as connection.sender receives it
SentResult(id, items) == [id |-> id, kind |-> "result", code |-> "none", items |-> items]
SentError(id, code) == [id |-> id, kind |-> "error", code |-> code, items |-> <<>>]

\* the arm of the loop for a request: the cache it leaves, the reply, whether the
\* process goes on, and the responses sent; params is None when it does not parse
handle_request(c, cfg, docs, root, t, id, method, params) ==
    IF method = "shutdown"
    THEN [cache |-> c, response |-> NoResponse, alive |-> FALSE,
          sent |-> <<SentResult(id, <<>>)>>]
    ELSE IF method # "textDocument/completion"
    THEN [cache |-> c, response |-> ErrorResponse("MethodNotFound"), alive |-> TRUE,
          sent |-> <<SentError(id, "MethodNotFound")>>]
    ELSE IF is_none(params)
    THEN [cache |-> c, response |-> ErrorResponse("InvalidParams"), alive |-> TRUE,
          sent |-> <<SentError(id, "InvalidParams")>>]
    ELSE LET r == completion_items(c, cfg, docs, root, t, unwrap(params).uri,
                                   unwrap(params).cursor) IN
         [cache |-> r.cache,
          response |-> ResultResponse(unwrap(params).uri, unwrap(params).cursor, r),
          alive |-> r.stage # "panic",
          sent |-> IF r.stage = "panic" THEN <<>> ELSE <<SentResult(id, r.items)>>]

\* a request message taken from the receiver and handled to its end
HandleRequest(id, method, params) ==
    /\ alive
    /\ \E r \in { handle_request(cache, config, documents, root_uri, now, id, method,
                                 params) } :
         /\ cache' = r.cache
         /\ response' = r.response
         /\ alive' = r.alive
         /\ probe' = Applied("handle_request",
                             [id |-> id, method |-> method, params |-> params], r.sent)
    /\ UNCHANGED <<now, cacheVars, config, config_warned, warning_lines, documents,
                   root_uri, pending_config_request, next_request_id>>

ClientRequestIds == 1..2

Methods == { "textDocument/completion", "textDocument/hover", "shutdown" }

\* a buffer whose string starts one byte further than the 120-byte window reaches
\* back to the lead byte of a two-byte character, and two buffers without one
MessageBuffers ==
    { WindowBuffer(JoinLookback - 4), PrintHello,
      <<"o", "p", "e", "n", "(", "\"", ".", ".", "/", "f", "o">> }

\* the results a client answers workspace/configuration with: none, an empty
\* list, a list that holds the settings, the settings themselves
ConfigurationResults ==
    { None, Some(JArr(<<>>)),
      Some(JArr(<< JObj([max_results |-> JNum(1), base_dir |-> JStr("both")]) >>)),
      Some(JArr(<< JObj([cache_ttl_ms |-> JNum(0), cache_max_dirs |-> JNum(1)]) >>)),
      Some(JObj([max_results |-> JNum(1)])) }

MessagesInit == ServerStart(None, Some(RootUri))

MessagesNext ==
    \/ \E text \in MessageBuffers, language_id \in Languages :
           DidOpen(DocUri, text, language_id)
    \/ Initialized
    \/ \E id \in 1..(MaxRequestId + 1), result \in ConfigurationResults :
           HandleResponse(id, result)
    \/ \E id \in ClientRequestIds, method \in Methods :
           \E params \in {None} \cup { Some([uri |-> DocUri, cursor |-> c]) :
                                          c \in LastLineCursors(DocUri) } :
               HandleRequest(id, method, params)

SpecMessages == MessagesInit /\ [][MessagesNext]_vars

\* C22: every request message received before shutdown gets exactly one response
\* carrying its id (a result list for textDocument/completion, an InvalidParams
\* error for completion params that do not parse, a MethodNotFound error for any
\* other method), and that response is sent before the next incoming message is
\* processed, so no request is left in flight when the next one is taken.
C22_EveryRequestAnsweredOnce ==
    (probe.fn = "handle_request" /\ probe.input.method # "shutdown") =>
        /\ Len(probe.output) = 1
        /\ probe.output[1].id = probe.input.id
        /\ probe.input.method # "textDocument/completion"
              => (probe.output[1].kind = "error" /\ probe.output[1].code = "MethodNotFound")
        /\ (probe.input.method = "textDocument/completion" /\ is_none(probe.input.params))
              => (probe.output[1].kind = "error" /\ probe.output[1].code = "InvalidParams")
        /\ (probe.input.method = "textDocument/completion" /\ is_some(probe.input.params))
              => probe.output[1].kind = "result"

\* the server state a response may change
ServerState ==
    <<config, config_warned, warning_lines, cache, documents, root_uri,
      pending_config_request, next_request_id, alive>>

\* C30: over any interleaving of initialized notifications and incoming
\* responses, only a response whose id is the id of the most recently issued
\* workspace/configuration request changes the config or the cache limits; any
\* other response leaves the whole server state unchanged, request ids are never
\* reused, and each issued request id is applied at most once.
C30_OnlyPendingResponseApplies ==
    /\ [](is_some(pending_config_request)
            => unwrap(pending_config_request) = next_request_id - 1)
    /\ [][/\ next_request_id' >= next_request_id
          /\ (pending_config_request' # pending_config_request
                 /\ is_some(pending_config_request'))
                => /\ pending_config_request' = Some(next_request_id)
                   /\ next_request_id' = next_request_id + 1
          /\ \A id \in 1..(MaxRequestId + 1), result \in ConfigurationResults :
                HandleResponse(id, result) =>
                    /\ (config' # config \/ cache'.ttl # cache.ttl
                           \/ cache'.max_entries # cache.max_entries)
                          => (next_request_id > 1 /\ id = next_request_id - 1)
                    /\ (id # next_request_id - 1 \/ pending_config_request # Some(id))
                          => UNCHANGED ServerState
                    /\ pending_config_request = Some(id)
                          => pending_config_request' = None]_vars

\* two requests were issued, the answer to the second was applied and set
\* max_results to 1, and nothing is pending
C30_Witness ==
    /\ next_request_id = 3
    /\ pending_config_request = None
    /\ config.max_results = 1
    /\ config.base_dir = "Both"
    /\ cache.max_entries = config.cache_max_dirs

====
